---- MODULE Spec2Model ----
(***************************************************************************)
(* Chart computation and transit-forecast engine of the astrology service  *)
(* (src/astrology/local_calculate.py, predictions.py, app.py).             *)
(*                                                                         *)
(* Longitudes are whole degrees.  The ephemeris provider (swisseph) is the *)
(* environment: its answers are drawn from small sets.                     *)
(***************************************************************************)
EXTENDS Integers, Sequences, FiniteSets, TLC

VARIABLES
    house_cusps,    \* get_planet_house: the 12 cusps passed in
    planet_long,    \* get_planet_house: the longitude passed in
    planet_house,   \* get_planet_house: [status, house] of the call
    key_areas,      \* a window's life-area scores (area -> score)
    overall_rating, \* a window's overall_rating field
    rating_pc,      \* "scored" before _calculate_overall_rating, "rated" after
    event,          \* one call of _calculate_success_probability
    area_request,   \* PredictionRequest of a /predictions/<area> call
    area_handler,   \* progress and response of that handler
    sid_mode,       \* swisseph's global sidereal mode (swe.set_sid_mode)
    call,           \* per request thread: the chart or window call it runs
    charts_returned, \* per birth instant: the Chart values returned so far
    window,         \* one round of the window loop of get_transit_predictions
    yearly,         \* one call of generate_yearly_predictions
    convert,        \* one call of a longitude conversion of LocalCalculate
    wildcard,       \* one call of generate_wildcard_prediction
    overview,       \* the best/challenging selection of a yearly overview
    best,           \* one call of _calculate_best_dates_in_month
    bot             \* the bot layer: users, queue, handlers and the worker

houseVars == <<house_cusps, planet_long, planet_house>>

ratingVars == <<key_areas, overall_rating, rating_pc>>

areaVars == <<area_request, area_handler>>

chartVars == <<sid_mode, call, charts_returned>>

reportVars == <<overview, best, bot>>

forecastVars == <<window, yearly, convert, wildcard, reportVars>>

vars == <<houseVars, ratingVars, event, areaVars, chartVars, forecastVars>>

(***************************************************************************)
(* Bounds                                                                  *)
(***************************************************************************)
\* number of grid points on the circle from which cusp lists are drawn
NumGrid == 13

\* messages the user sends to the bot
MaxMessages == 4

\* highest house a body is found in on a sampled date of a window
MaxSampleHouse == 6

\* windows of a year whose overall rating differs from the shared one
MaxApartRatings == 1

\* largest magnitude of a life-area score handed to the rating
MaxAreaScore == 7

\* number of years after the first one from which request dates are drawn
MaxYearSpan == 1

\* instants 0..MaxInstant are asked of the ephemeris provider
MaxInstant == 2

\* number of bodies of a window that transit a house of their own
MaxApartBodies == 1

(***************************************************************************)
(* Coordinate Normalizer                                                   *)
(***************************************************************************)
FullCircle == 360

NumHouses == 12

SignWidth == 30

Min(a, b) == IF a < b THEN a ELSE b

Max(a, b) == IF a > b THEN a ELSE b

\* the wrap-aware membership test of one adjacent cusp pair (start, end)
InHouseInterval(long, start, end) ==
    IF end < start
    THEN long >= start \/ long < end
    ELSE start <= long /\ long < end

\* cusp pair of loop index i (0-based, as in the source)
CuspStart(cusps, i) == cusps[i + 1]

CuspEnd(cusps, i) == cusps[((i + 1) % NumHouses) + 1]

\* value returned when the loop of get_planet_house finds no interval
DefaultHouse == 1

\* bug variant: the loop index is returned instead of the house number
HouseNumberZeroBased(i) == i

\* house number returned for loop index i
HouseNumber(i) == i + 1

RECURSIVE HouseScan(_, _, _)
HouseScan(long, cusps, i) ==
    IF i = NumHouses
    THEN DefaultHouse
    ELSE IF InHouseInterval(long, CuspStart(cusps, i), CuspEnd(cusps, i))
         THEN HouseNumber(i)
         ELSE HouseScan(long, cusps, i + 1)

\* bug variant: the wrap-around interval is tested like the others
get_planet_house_nowrap(long, cusps) ==
    LET hit == {i \in 0..(NumHouses - 1) :
                  CuspStart(cusps, i) <= long /\ long < CuspEnd(cusps, i)}
    IN  IF hit = {} THEN DefaultHouse
        ELSE HouseNumber(CHOOSE i \in hit : \A j \in hit : i <= j)

get_planet_house(long, cusps) == HouseScan(long, cusps, 0)

\* loop indices whose interval contains the longitude
MatchingIntervals(long, cusps) ==
    {i \in 0..(NumHouses - 1) :
        InHouseInterval(long, CuspStart(cusps, i), CuspEnd(cusps, i))}

(***************************************************************************)
(* Inputs of get_planet_house                                              *)
(***************************************************************************)
GridPoint(k) == (k * FullCircle) \div NumGrid

Grid == {GridPoint(k) : k \in 0..(NumGrid - 1)}

RECURSIVE SortedSeq(_)
SortedSeq(S) ==
    IF S = {} THEN <<>>
    ELSE LET m == CHOOSE x \in S : \A y \in S : x <= y
         IN  <<m>> \o SortedSeq(S \ {m})

Rotate(s, r) == [i \in 1..Len(s) |-> s[((i - 1 + r) % Len(s)) + 1]]

\* 12 distinct longitudes, increasing around the circle, one pair wrapping
ValidCusps ==
    {Rotate(SortedSeq(S), r) :
        S \in {T \in SUBSET Grid : Cardinality(T) = NumHouses},
        r \in 0..(NumHouses - 1)}

\* number of descending adjacent pairs (cyclically)
Descents(cusps) ==
    Cardinality({i \in 0..(NumHouses - 1) : CuspEnd(cusps, i) < CuspStart(cusps, i)})

IsValidCusps(cusps) ==
    /\ \A i \in 0..(NumHouses - 1) : CuspStart(cusps, i) # CuspEnd(cusps, i)
    /\ Descents(cusps) = 1

\* malformed cusp data: all cusps equal, or two cusps exchanged
ConstantCusps == {[i \in 1..NumHouses |-> g] : g \in Grid}

Swap(s, a, b) == [i \in 1..Len(s) |-> IF i = a THEN s[b] ELSE IF i = b THEN s[a] ELSE s[i]]

SwappedCusps ==
    {Swap(SortedSeq(S), 3, 4) : S \in {T \in SUBSET Grid : Cardinality(T) = NumHouses}}

CuspInputs == ValidCusps \cup ConstantCusps \cup SwappedCusps

\* the grid points and their neighbours on both sides
LongitudeInputs ==
    Grid \cup {(g + 1) % FullCircle : g \in Grid}
         \cup {(g + FullCircle - 1) % FullCircle : g \in Grid}

Pending == [status |-> "pending", house |-> 0]

Returned(h) == [status |-> "returned", house |-> h]

(***************************************************************************)
(* Specification of get_planet_house on its own                            *)
(***************************************************************************)
HouseIdle ==
    /\ house_cusps = <<>>
    /\ planet_long = 0
    /\ planet_house = Pending

RatingIdle ==
    /\ key_areas = <<>>
    /\ overall_rating = 0
    /\ rating_pc = "idle"

EventIdle == event = [pc |-> "idle"]

AreaIdle ==
    /\ area_request = [area |-> "none"]
    /\ area_handler = [pc |-> "idle"]

ChartIdle ==
    /\ sid_mode = "none"
    /\ call = <<>>
    /\ charts_returned = <<>>

WindowIdle == window = [pc |-> "idle"]

YearlyIdle == yearly = [pc |-> "idle"]

ConvertIdle == convert = [pc |-> "idle"]

WildcardIdle == wildcard = [pc |-> "idle"]

OverviewIdle == overview = [pc |-> "idle"]

BestIdle == best = [pc |-> "idle"]

BotIdle == bot = [pc |-> "idle"]

ReportIdle == OverviewIdle /\ BestIdle /\ BotIdle

ForecastIdle ==
    WindowIdle /\ YearlyIdle /\ ConvertIdle /\ WildcardIdle /\ ReportIdle

HouseInit ==
    /\ house_cusps \in CuspInputs
    /\ planet_long \in LongitudeInputs
    /\ planet_house = Pending
    /\ RatingIdle
    /\ EventIdle
    /\ AreaIdle
    /\ ChartIdle
    /\ ForecastIdle

GetPlanetHouse ==
    /\ planet_house.status = "pending"
    /\ house_cusps # <<>>
    /\ planet_house' = Returned(get_planet_house(planet_long, house_cusps))
    /\ UNCHANGED <<house_cusps, planet_long, ratingVars, event, areaVars, chartVars, forecastVars>>

HouseNext == GetPlanetHouse

SpecHouse == HouseInit /\ [][HouseNext]_vars

\* C1: for valid cusps every longitude in [0,360) lies in exactly one of the
\* 12 wrap-aware intervals, and get_planet_house returns that house.
C1_HousePartition ==
    (planet_house.status = "returned" /\ IsValidCusps(house_cusps)
        /\ planet_long >= 0 /\ planet_long < FullCircle)
    => /\ Cardinality(MatchingIntervals(planet_long, house_cusps)) = 1
       /\ planet_house.house \in 1..NumHouses
       /\ (planet_house.house - 1) \in MatchingIntervals(planet_long, house_cusps)

\* a longitude that lies in the wrap-around interval of a valid cusp list,
\* below its end, was mapped to a house other than the first
C1_Witness ==
    /\ planet_house.status = "returned"
    /\ IsValidCusps(house_cusps)
    /\ planet_house.house > 1
    /\ CuspEnd(house_cusps, planet_house.house - 1)
         < CuspStart(house_cusps, planet_house.house - 1)
    /\ planet_long < CuspEnd(house_cusps, planet_house.house - 1)

\* C9: when no interval contains the longitude the call surfaces an
\* InternalInconsistency failure instead of returning a house.
C9_NoMatchIsSurfaced ==
    (planet_house.status # "pending"
        /\ MatchingIntervals(planet_long, house_cusps) = {})
    => planet_house.status = "InternalInconsistency"

(***************************************************************************)
(* sorted()                                                                *)
(***************************************************************************)
\* sorted(..., reverse=True) on a list of keys: the positions of the list in
\* the order of the result.  The sort is stable: of two equal keys the
\* earlier one comes first.  place[i] is where position i goes.
StableOrderDescending(keys) ==
    CHOOSE order \in
        {[r \in DOMAIN place |-> CHOOSE i \in DOMAIN place : place[i] = r] :
         place \in
            {[i \in 1..Len(k) |->
                1 + Cardinality({j \in 1..Len(k) :
                        k[j] > k[i] \/ (k[j] = k[i] /\ j < i)})] :
             k \in {keys}}} : TRUE

\* bug variant: the sort without reverse=True
StableOrderAscending(keys) ==
    CHOOSE order \in
        {[r \in DOMAIN place |-> CHOOSE i \in DOMAIN place : place[i] = r] :
         place \in
            {[i \in 1..Len(k) |->
                1 + Cardinality({j \in 1..Len(k) :
                        k[j] < k[i] \/ (k[j] = k[i] /\ j < i)})] :
             k \in {keys}}} : TRUE

(***************************************************************************)
(* Window Aggregator: overall rating                                       *)
(***************************************************************************)
Areas == {"love", "career", "wealth", "health"}

\* sum(area["score"] for area in key_areas.values())
TotalScore(ka) == ka["love"] + ka["career"] + ka["wealth"] + ka["health"]

\* bug variant: division that truncates toward zero
HalfScoreTruncating(total) ==
    IF total >= 0 THEN total \div 2 ELSE -((-total) \div 2)

\* total_score // 2 (floor division)
HalfScore(total) == total \div 2

_calculate_overall_rating(ka) ==
    Max(1, Min(10, 5 + HalfScore(TotalScore(ka))))

RatingInit ==
    /\ key_areas \in [Areas -> (-MaxAreaScore)..MaxAreaScore]
    /\ overall_rating = 0
    /\ rating_pc = "scored"
    /\ HouseIdle
    /\ EventIdle
    /\ AreaIdle
    /\ ChartIdle
    /\ ForecastIdle

CalculateOverallRating ==
    /\ rating_pc = "scored"
    /\ overall_rating' = _calculate_overall_rating(key_areas)
    /\ rating_pc' = "rated"
    /\ UNCHANGED <<key_areas, houseVars, event, areaVars, chartVars, forecastVars>>

RatingNext == CalculateOverallRating

SpecRating == RatingInit /\ [][RatingNext]_vars

\* the largest integer q with 2q <= n
FloorHalf(n) ==
    CHOOSE q \in (-2 * MaxAreaScore - 1)..(2 * MaxAreaScore + 1) :
        2 * q <= n /\ n < 2 * q + 2

Clamp(x, lo, hi) == IF x < lo THEN lo ELSE IF x > hi THEN hi ELSE x

\* C4: the overall rating of a window is clamp(5 + floor(total/2), 1, 10),
\* total being the sum of the four area scores, hence an integer in 1..10.
C4_RatingClamped ==
    rating_pc = "rated"
    => /\ overall_rating
            = Clamp(5 + FloorHalf(key_areas["love"] + key_areas["career"]
                                  + key_areas["wealth"] + key_areas["health"]), 1, 10)
       /\ overall_rating \in 1..10

\* a rated window whose total is negative and odd
C4_Witness ==
    /\ rating_pc = "rated"
    /\ TotalScore(key_areas) = -3
    /\ overall_rating = 3

(***************************************************************************)
(* Forecast Composer: success probability of an event                      *)
(* Scores are kept in tenths of a percent point (0.3 * 15 = 4.5).          *)
(***************************************************************************)
NAKSHATRAS ==
    << "Ashwini", "Bharani", "Krittika", "Rohini", "Mrigashira", "Ardra",
       "Punarvasu", "Pushya", "Ashlesha", "Magha", "Purva Phalguni",
       "Uttara Phalguni", "Hasta", "Chitra", "Swati", "Vishakha", "Anuradha",
       "Jyeshtha", "Mula", "Purva Ashadha", "Uttara Ashadha", "Shravana",
       "Dhanishta", "Shatabhisha", "Purva Bhadrapada", "Uttara Bhadrapada",
       "Revati" >>

NakshatraNames == {NAKSHATRAS[i] : i \in 1..Len(NAKSHATRAS)}

EventAreas == {"love", "career", "wealth", "health", "general"}

\* area_key_planets: (planet, weight) in the order the loop visits them
area_key_planets(area) ==
    CASE area = "love"   -> << <<"Venus", 20>>, <<"Moon", 15>>, <<"Jupiter", 10>> >>
      [] area = "career" -> << <<"Sun", 20>>, <<"Saturn", 15>>, <<"Mercury", 10>> >>
      [] area = "wealth" -> << <<"Jupiter", 20>>, <<"Mercury", 15>>, <<"Venus", 10>> >>
      [] area = "health" -> << <<"Sun", 20>>, <<"Moon", 15>>, <<"Mars", 10>> >>
      [] OTHER           -> << <<"Jupiter", 15>>, <<"Venus", 10>>, <<"Sun", 10>> >>

KeyPlanetNames(area) ==
    {area_key_planets(area)[i][1] : i \in 1..Len(area_key_planets(area))}

BeneficHouses == {1, 2, 4, 5, 7, 9, 10, 11}

\* base score the calculation starts from, in tenths
BaseScoreTenths == 500

\* bug variant: the weight is applied in full instead of at 0.3 and 0.1
HouseAdjustmentFullWeight(house, weight) ==
    IF house \in BeneficHouses THEN weight * 10
    ELSE IF house \in {3} THEN weight * 10
    ELSE -(weight * 10)

\* bug variant: house 3 leaves the score as it is
HouseAdjustmentNoNeutral(house, weight) ==
    IF house \in BeneficHouses THEN weight * 3
    ELSE IF house \in {3} THEN 0
    ELSE -(weight * 3)

\* change of base_score for one key planet, in tenths
HouseAdjustment(house, weight) ==
    IF house \in BeneficHouses THEN weight * 3
    ELSE IF house \in {3} THEN weight * 1
    ELSE -(weight * 3)

RECURSIVE KeyPlanetLoop(_, _, _, _)
KeyPlanetLoop(key_planets, houses, i, base_score) ==
    IF i > Len(key_planets) THEN base_score
    ELSE KeyPlanetLoop(key_planets, houses, i + 1,
            base_score + HouseAdjustment(houses[key_planets[i][1]], key_planets[i][2]))

FavorableNakshatras == {"Rohini", "Pushya", "Hasta", "Shravana", "Revati"}

ChallengingNakshatras == {"Ashlesha", "Jyeshtha", "Moola", "Ardra"}

\* bug variant: the Moon's mansion moves the score by 20
MoonAdjustmentDoubled(moon_nakshatra) ==
    IF moon_nakshatra \in FavorableNakshatras THEN 200
    ELSE IF moon_nakshatra \in ChallengingNakshatras THEN -200
    ELSE 0

MoonAdjustment(moon_nakshatra) ==
    IF moon_nakshatra \in FavorableNakshatras THEN 100
    ELSE IF moon_nakshatra \in ChallengingNakshatras THEN -100
    ELSE 0

NegativeKeywords == {"redundancy", "fired", "accident", "problem", "fail"}

\* the query is the set of the keywords it contains
QueryAdjustment(query) ==
    IF query \cap NegativeKeywords # {}
    THEN IF "safe" \in query \/ "avoid" \in query THEN 0 ELSE -50
    ELSE 0

\* int(): truncation toward zero of a score in tenths
IntOfTenths(t) == IF t >= 0 THEN t \div 10 ELSE -((-t) \div 10)

\* max(0, min(100, x))
NormalizePercent(x) == Max(0, Min(100, x))

\* bug variant: full weights and no normalisation of the result
SuccessProbabilityUnnormalised(event_planets, moon_nakshatra, area, query) ==
    LET kp == area_key_planets(area)
        adj(i) == HouseAdjustmentFullWeight(event_planets[kp[i][1]], kp[i][2])
    IN  IntOfTenths(BaseScoreTenths + adj(1) + adj(2) + adj(3)
                    + MoonAdjustment(moon_nakshatra) + QueryAdjustment(query))

_calculate_success_probability(event_planets, moon_nakshatra, area, query) ==
    NormalizePercent(IntOfTenths(
        KeyPlanetLoop(area_key_planets(area), event_planets, 1, BaseScoreTenths)
        + MoonAdjustment(moon_nakshatra) + QueryAdjustment(query)))

\* "rating" of success_probability in the response
ProbabilityRating(success_probability) ==
    IF success_probability >= 80 THEN "Very High"
    ELSE IF success_probability >= 65 THEN "High"
    ELSE IF success_probability >= 50 THEN "Moderate"
    ELSE IF success_probability >= 35 THEN "Low"
    ELSE "Very Low"

QueryInputs == {{}, {"fail"}, {"accident", "safe"}}

EventInit ==
    /\ \E area \in EventAreas :
       \E houses \in [KeyPlanetNames(area) -> 1..NumHouses] :
       \E nak \in NakshatraNames :
       \E q \in QueryInputs :
          event = [pc |-> "called", area |-> area, houses |-> houses,
                   moon_nakshatra |-> nak, query |-> q, percentage |-> 0,
                   rating |-> "none"]
    /\ HouseIdle
    /\ RatingIdle
    /\ AreaIdle
    /\ ChartIdle
    /\ ForecastIdle

CalculateSuccessProbability ==
    /\ event.pc = "called"
    /\ \E success_probability \in
            {_calculate_success_probability(
                event.houses, event.moon_nakshatra, event.area, event.query)} :
         event' = [event EXCEPT
            !.pc = "returned",
            !.percentage = success_probability,
            !.rating = ProbabilityRating(success_probability)]
    /\ UNCHANGED <<houseVars, ratingVars, areaVars, chartVars, forecastVars>>

EventNext == CalculateSuccessProbability

SpecEvent == EventInit /\ [][EventNext]_vars

\* C5: the success-probability percentage is in [0,100] for every area,
\* every assignment of houses, every Moon nakshatra and every query.
C5_ProbabilityInRange ==
    event.pc = "returned" => event.percentage \in 0..100

\* all three key bodies in challenging houses, an unfavourable Moon and a
\* penalised query: the lowest score the calculation reaches
C5_Witness ==
    /\ event.pc = "returned"
    /\ event.area = "love"
    /\ \A p \in KeyPlanetNames("love") : event.houses[p] \in {6, 8, 12}
    /\ event.moon_nakshatra = "Ardra"
    /\ event.query = {"fail"}
    /\ event.percentage = 21

(***************************************************************************)
(* Calendar (datetime, timedelta)                                          *)
(***************************************************************************)
IsLeapYear(y) == (y % 4 = 0 /\ y % 100 # 0) \/ y % 400 = 0

DaysInMonth(y, m) ==
    IF m = 2 THEN (IF IsLeapYear(y) THEN 29 ELSE 28)
    ELSE IF m \in {4, 6, 9, 11} THEN 30 ELSE 31

Date(y, m, d) == [year |-> y, month |-> m, day |-> d]

\* date + timedelta(days=n), n >= 0
RECURSIVE AddDays(_, _)
AddDays(date, n) ==
    IF date.day + n <= DaysInMonth(date.year, date.month)
    THEN Date(date.year, date.month, date.day + n)
    ELSE AddDays(
            Date(IF date.month = 12 THEN date.year + 1 ELSE date.year,
                 IF date.month = 12 THEN 1 ELSE date.month + 1, 1),
            n - (DaysInMonth(date.year, date.month) - date.day) - 1)

(***************************************************************************)
(* HTTP layer: /predictions/love, /health, /career, /wealth                *)
(***************************************************************************)
NoDate == Date(0, 0, 0)

RequestYears == 2024..(2024 + MaxYearSpan)

RequestDates ==
    {Date(y, m, d) : y \in RequestYears, m \in 1..12, d \in {1, 28}}

\* datetime.now() when the request carries no start_date
NowInputs == {Date(2024, 8, 31), Date(2025, 1, 1)}

\* end_date of the handler: the given one or start_date + 180 days
HandlerEndDate(start_date, end_date) ==
    IF end_date # NoDate THEN end_date ELSE AddDays(start_date, 180)

\* months = max(1, (end.year - start.year) * 12 + end.month - start.month)
HandlerMonths(start_date, end_date) ==
    Max(1, (end_date.year - start_date.year) * 12
           + end_date.month - start_date.month)

MaxMonths == 12

StatusOk == 200

StatusBadRequest == 400

StatusServerError == 500

AreaInit ==
    /\ \E area \in Areas, sd \in RequestDates \cup {NoDate},
          ed \in RequestDates \cup {NoDate} :
          area_request = [area |-> area, start_date |-> sd, end_date |-> ed]
    /\ area_handler = [pc |-> "received", months |-> 0, raised |-> 0,
                       status |-> 0, transit_calls |-> 0]
    /\ HouseIdle
    /\ RatingIdle
    /\ EventIdle
    /\ ChartIdle
    /\ ForecastIdle

\* the try block up to the months check: geocode_location, calculate_chart
\* (either may raise), the dates, months, and the raise of HTTPException(400)
HandlerPrepare ==
    /\ area_handler.pc = "received"
    /\ \E geocoded \in BOOLEAN, charted \in BOOLEAN, now \in NowInputs :
         LET start_date == IF area_request.start_date # NoDate
                           THEN area_request.start_date ELSE now
             end_date == HandlerEndDate(start_date, area_request.end_date)
             months == HandlerMonths(start_date, end_date)
         IN  area_handler' =
               IF ~geocoded
               THEN [area_handler EXCEPT !.pc = "raised", !.raised = StatusBadRequest]
               ELSE IF ~charted
               THEN [area_handler EXCEPT !.pc = "raised", !.raised = StatusServerError]
               ELSE IF months > MaxMonths
               THEN [area_handler EXCEPT !.pc = "raised", !.months = months,
                                         !.raised = StatusBadRequest]
               ELSE [area_handler EXCEPT !.pc = "forecasting", !.months = months]
    /\ UNCHANGED <<area_request, houseVars, ratingVars, event, chartVars, forecastVars>>

\* generate_area_specific_predictions: it calls get_transit_predictions
\* without looking at months; a provider failure raises
GenerateAreaSpecificPredictions ==
    /\ area_handler.pc = "forecasting"
    /\ \E provided \in BOOLEAN :
         area_handler' =
           IF provided
           THEN [area_handler EXCEPT !.pc = "responded", !.status = StatusOk,
                     !.transit_calls = area_handler.transit_calls + 1]
           ELSE [area_handler EXCEPT !.pc = "raised", !.raised = StatusServerError,
                     !.transit_calls = area_handler.transit_calls + 1]
    /\ UNCHANGED <<area_request, houseVars, ratingVars, event, chartVars, forecastVars>>

\* except Exception as e: raise HTTPException(status_code=500, ...)
HandlerExcept ==
    /\ area_handler.pc = "raised"
    /\ area_handler' = [area_handler EXCEPT !.pc = "responded",
                                            !.status = StatusServerError]
    /\ UNCHANGED <<area_request, houseVars, ratingVars, event, chartVars, forecastVars>>

AreaNext == HandlerPrepare \/ GenerateAreaSpecificPredictions \/ HandlerExcept

SpecArea == AreaInit /\ [][AreaNext]_vars

\* C6: an area-specific request for more than 12 months is rejected with an
\* InvalidInput failure (HTTP 400) before get_transit_predictions is called.
C6_OverlongRejectedAsInvalidInput ==
    (area_handler.pc = "responded" /\ area_handler.months > MaxMonths)
    => /\ area_handler.status = StatusBadRequest
       /\ area_handler.transit_calls = 0

(***************************************************************************)
(* Ephemeris provider (swisseph): the environment of the Chart Builder.    *)
(* Instants are points of the provider's time scale; its answers are       *)
(* functions of their arguments and, for the ayanamsa, of the sidereal     *)
(* mode set last.                                                          *)
(***************************************************************************)
Instants == 0..MaxInstant

PlanetOrder ==
    <<"Sun", "Moon", "Mars", "Mercury", "Jupiter", "Venus", "Saturn", "Rahu", "Ketu">>

PlanetNames == {PlanetOrder[i] : i \in 1..Len(PlanetOrder)}

\* PLANET_IDS: Rahu and Ketu are both computed from the mean node
PLANET_IDS(planet_name) ==
    IF planet_name \in {"Rahu", "Ketu"} THEN "MEAN_NODE" ELSE planet_name

\* AYANAMSA = swe.SIDM_LAHIRI; the library starts in Fagan/Bradley mode
AYANAMSA == "SIDM_LAHIRI"

SweDefaultSidMode == "SIDM_FAGAN_BRADLEY"

\* swe.julday
swe_julday(dt) == dt

\* swe.get_ayanamsa under the sidereal mode in force: negative for instants
\* before the mode's zero epoch (instants 0 and 1), positive after it
swe_get_ayanamsa(sid_mode_now, jd) ==
    (IF jd = 0 THEN -5 ELSE IF jd = 1 THEN -3 ELSE 24)
    + (IF sid_mode_now = AYANAMSA THEN 0
       ELSE IF sid_mode_now = SweDefaultSidMode THEN 1 ELSE -1)

\* swe.calc_ut(jd, id)[0][0]: tropical longitude in [0,360)
swe_calc_ut_longitude(jd, planet_id) ==
    LET k == CHOOSE i \in 1..Len(PlanetOrder) : PLANET_IDS(PlanetOrder[i]) = planet_id
        offset == <<358, 10, 95, 170, 200, 284, 355, 300, 300>>
        step   == <<21, 131, 61, 45, 30, 77, 12, 341, 341>>
    IN  (offset[k] + jd * step[k]) % FullCircle

\* swe.calc_ut(jd, id)[0][3]: speed in longitude
swe_calc_ut_speed(jd, planet_id) ==
    LET k == CHOOSE i \in 1..Len(PlanetOrder) : PLANET_IDS(PlanetOrder[i]) = planet_id
    IN  IF (jd + k) % 3 = 0 THEN -1 ELSE 1

\* swe.houses(jd, lat, lon)[0]: 12 tropical cusps, increasing around the circle
swe_houses(jd) ==
    LET width == <<0, 25, 55, 90, 125, 155, 180, 205, 235, 270, 305, 335>>
    IN  [i \in 1..NumHouses |-> (357 + jd * 101 + width[i]) % FullCircle]

(***************************************************************************)
(* Chart Builder: the functions of LocalCalculate                          *)
(***************************************************************************)
ZODIAC_SIGNS ==
    <<"Aries", "Taurus", "Gemini", "Cancer", "Leo", "Virgo", "Libra", "Scorpio",
      "Sagittarius", "Capricorn", "Aquarius", "Pisces">>

\* if nirayana < 0: nirayana += 360
NormalizeLongitude(nirayana) ==
    IF nirayana < 0 THEN nirayana + FullCircle ELSE nirayana

\* bug variant: the opposite point is not reduced to the circle
OppositePointUnreduced(nirayana_long) == nirayana_long + 180

\* nirayana_long = (nirayana_long + 180) % 360
OppositePoint(nirayana_long) == (nirayana_long + 180) % FullCircle

\* get_planet_longitude from the tropical longitude the provider returned
SiderealLongitude(planet_name, tropical_long, ayanamsa) ==
    LET nirayana_long == tropical_long - ayanamsa
    IN  NormalizeLongitude(
            IF planet_name = "Ketu" THEN OppositePoint(nirayana_long)
            ELSE nirayana_long)

get_planet_longitude(planet_name, jd, ayanamsa) ==
    SiderealLongitude(planet_name,
                      swe_calc_ut_longitude(jd, PLANET_IDS(planet_name)), ayanamsa)

get_ascendant(jd, ayanamsa) == NormalizeLongitude(swe_houses(jd)[1] - ayanamsa)

get_house_cusps(jd, ayanamsa) ==
    [i \in 1..NumHouses |-> NormalizeLongitude(swe_houses(jd)[i] - ayanamsa)]

\* bug variant: the quotient is rounded to the nearest integer
SignIndexRounded(longitude) == (longitude + SignWidth \div 2) \div SignWidth

\* int(longitude / 30)
SignIndex(longitude) == longitude \div SignWidth

\* ZODIAC_SIGNS[sign_index] raises IndexError outside the list
SignRaises(longitude) == SignIndex(longitude) >= Len(ZODIAC_SIGNS)

longitude_to_sign(longitude) ==
    <<ZODIAC_SIGNS[SignIndex(longitude) + 1], longitude % SignWidth>>

\* the source divides by the decimal constants 13.333333 and 3.333333
MicroDegree == 1000000

NakshatraSpanMicro == 13333333

PadaSpanMicro == 3333333

\* int(longitude / 13.333333), the longitude in millionths of a degree
NakshatraIndexAt(micro) == micro \div NakshatraSpanMicro

\* int((longitude % 13.333333) / 3.333333) + 1
PadaAt(micro) == ((micro % NakshatraSpanMicro) \div PadaSpanMicro) + 1

NakshatraIndex(longitude) == NakshatraIndexAt(longitude * MicroDegree)

NakshatraRaises(longitude) == NakshatraIndex(longitude) >= Len(NAKSHATRAS)

get_nakshatra(longitude) ==
    <<NAKSHATRAS[NakshatraIndex(longitude) + 1], PadaAt(longitude * MicroDegree)>>

is_planet_retrograde(planet_name, jd) ==
    IF planet_name \in {"Sun", "Moon", "Rahu", "Ketu"} THEN FALSE
    ELSE swe_calc_ut_speed(jd, PLANET_IDS(planet_name)) < 0

SIGN_LORDS ==
    [Aries |-> "Mars", Taurus |-> "Venus", Gemini |-> "Mercury", Cancer |-> "Moon",
     Leo |-> "Sun", Virgo |-> "Mercury", Libra |-> "Venus", Scorpio |-> "Mars",
     Sagittarius |-> "Jupiter", Capricorn |-> "Saturn", Aquarius |-> "Saturn",
     Pisces |-> "Jupiter"]

get_lord_of_sign(sign) == SIGN_LORDS[sign]

EXALTATION_POINTS ==
    [Sun |-> 10, Moon |-> 33, Mars |-> 280, Mercury |-> 165, Jupiter |-> 95,
     Venus |-> 357, Saturn |-> 200]

DEBILITATION_POINTS ==
    [Sun |-> 190, Moon |-> 213, Mars |-> 100, Mercury |-> 345, Jupiter |-> 275,
     Venus |-> 177, Saturn |-> 20]

is_exalted(planet_name, longitude) ==
    /\ planet_name \in DOMAIN EXALTATION_POINTS
    /\ SignIndex(longitude) = SignIndex(EXALTATION_POINTS[planet_name])

is_debilitated(planet_name, longitude) ==
    /\ planet_name \in DOMAIN DEBILITATION_POINTS
    /\ SignIndex(longitude) = SignIndex(DEBILITATION_POINTS[planet_name])

\* planets[planet_name] as built inside the loop over the 9 planets
PlanetEntry(planet_name, jd, ayanamsa) ==
    LET plong == get_planet_longitude(planet_name, jd, ayanamsa)
        sd == longitude_to_sign(plong)
        np == get_nakshatra(plong)
    IN  [name |-> planet_name, longitude |-> plong, sign |-> sd[1],
         degrees_in_sign |-> sd[2], nakshatra |-> np[1], nakshatra_pada |-> np[2],
         lord_of_sign |-> get_lord_of_sign(sd[1]),
         is_retrograde |-> is_planet_retrograde(planet_name, jd),
         is_exalted |-> is_exalted(planet_name, plong),
         is_debilitated |-> is_debilitated(planet_name, plong),
         house |-> 0]

\* the loop "Assign planets to houses"
AssignHouses(planets, cusps) ==
    [i \in 1..Len(planets) |->
        [planets[i] EXCEPT !.house = get_planet_house(planets[i].longitude, cusps)]]

\* [p for p, data in planets.items() if data["house"] == house_num]
PlanetsInHouse(planets, h) ==
    LET sel == SelectSeq(planets, LAMBDA e : e.house = h)
    IN  [i \in 1..Len(sel) |-> sel[i].name]

\* the loop "Prepare houses data"
HousesData(planets, cusps) ==
    [h \in 1..NumHouses |->
        [sign |-> longitude_to_sign(cusps[h])[1],
         cusp_longitude |-> cusps[h],
         lord |-> get_lord_of_sign(longitude_to_sign(cusps[h])[1]),
         planets |-> PlanetsInHouse(planets, h)]]

(***************************************************************************)
(* Transit Evaluator and Window Aggregator                                 *)
(***************************************************************************)
TransitPlanets == <<"Jupiter", "Saturn", "Mars", "Venus", "Mercury", "Sun", "Moon">>

ChallengingHouses == {6, 8, 12}

\* bug variant: a body back in its natal house counts as positive
_analyze_transit_effect_return(planet, transit_house, natal_house, natal_chart) ==
    LET is_benefic == planet \in {"Jupiter", "Venus", "Mercury"}
        is_malefic == planet \in {"Saturn", "Mars", "Rahu", "Ketu"}
    IN  IF transit_house = natal_house THEN "positive"
        ELSE IF transit_house \in BeneficHouses
        THEN (IF is_benefic THEN "positive" ELSE "mixed")
        ELSE IF transit_house \in ChallengingHouses
        THEN (IF is_malefic THEN "challenging" ELSE "mixed")
        ELSE "neutral"

_analyze_transit_effect(planet, transit_house, natal_house, natal_chart) ==
    LET is_benefic == planet \in {"Jupiter", "Venus", "Mercury"}
        is_malefic == planet \in {"Saturn", "Mars", "Rahu", "Ketu"}
    IN  IF transit_house \in BeneficHouses
        THEN (IF is_benefic THEN "positive" ELSE "mixed")
        ELSE IF transit_house \in ChallengingHouses
        THEN (IF is_malefic THEN "challenging" ELSE "mixed")
        ELSE "neutral"

\* bug variant: a mixed transit counts +1
effect_scores_mixed(effect) ==
    CASE effect = "positive" -> 2
      [] effect = "challenging" -> -2
      [] effect = "mixed" -> 1
      [] OTHER -> 0

effect_scores(effect) ==
    CASE effect = "positive" -> 2
      [] effect = "challenging" -> -2
      [] OTHER -> 0

\* bug variant: of the two entries for house 6 the one for health stands
house_to_area_health ==
    (5 :> "love") @@ (7 :> "love") @@ (11 :> "wealth") @@ (2 :> "wealth")
    @@ (1 :> "health") @@ (6 :> "health") @@ (10 :> "career")

\* the dict literal house_to_area: of two entries with one key the later stands
house_to_area ==
    (5 :> "love") @@ (7 :> "love") @@ (11 :> "wealth") @@ (2 :> "wealth")
    @@ (1 :> "health") @@ (6 :> "career") @@ (10 :> "career")

_update_area_scores(ka, effect, transit_house) ==
    IF transit_house \in DOMAIN house_to_area
    THEN [ka EXCEPT ![house_to_area[transit_house]] = @ + effect_scores(effect)]
    ELSE ka

NewKeyAreas == [a \in Areas |-> 0]

\* natal_chart["planets"] of the requests of the chart threads: body -> house
ThreadNatalChart == [b \in {TransitPlanets[n] : n \in 1..Len(TransitPlanets)} |-> 1]

\* one entry of month_predictions["transits"]
TransitEntry(planet, jd, ayanamsa, cusps) ==
    LET transit_long == get_planet_longitude(planet, jd, ayanamsa)
        transit_house == get_planet_house(transit_long, cusps)
    IN  [planet |-> planet, transit_house |-> transit_house,
         transit_sign |-> longitude_to_sign(transit_long)[1],
         effect |-> _analyze_transit_effect(planet, transit_house,
                                            ThreadNatalChart[planet],
                                            ThreadNatalChart)]

(***************************************************************************)
(* Chart Builder as it runs: request threads calling get_complete_chart,   *)
(* one step per call into the provider                                     *)
(***************************************************************************)
Procs == {"t1", "t2"}

NoChart == [status |-> "none"]

IdleCall ==
    [kind |-> "none", pc |-> "idle", dt |-> 0, jd |-> 0, ayan_steps |-> <<>>,
     ayanamsa |-> 0, longs |-> <<>>, planets |-> <<>>, asc |-> 0, cusps |-> <<>>,
     transits |-> <<>>, key_areas |-> <<>>,
     result |-> NoChart, error |-> "none", failed_at |-> "none"]

\* bug variant: the ayanamsa is read before the sidereal mode is set
get_ayanamsa_steps_swapped == <<"get_ayanamsa", "set_sid_mode">>

\* the two statements of get_ayanamsa, in source order
get_ayanamsa_steps == <<"set_sid_mode", "get_ayanamsa">>

\* bug variant: the window loop selects another sidereal mode than the chart
SidModeArgumentByKind(kind) == IF kind = "window" THEN "SIDM_RAMAN" ELSE AYANAMSA

\* the argument every caller passes to swe.set_sid_mode
SidModeArgument(kind) == AYANAMSA

\* bug variant: the exception is swallowed and what was built is returned
RaiseSwallowed(c, kind) ==
    [c EXCEPT !.pc = "done", !.error = kind, !.failed_at = c.pc,
              !.result = [status |-> "chart", planets |-> c.planets, houses |-> <<>>]]

\* an exception raised inside the call leaves it: nothing is caught
Raise(c, kind) ==
    [c EXCEPT !.pc = "failed", !.error = kind, !.failed_at = c.pc, !.result = NoChart]

\* pc after get_ayanamsa has run both statements: get_complete_chart goes on
\* with the planets, get_transit_predictions with the house cusps
AfterAyanamsa(c) == IF c.kind = "chart" THEN "planets" ELSE "cusps"

CallKinds == {"chart", "window"}

ChartInit ==
    /\ sid_mode = SweDefaultSidMode
    /\ call = [p \in Procs |-> IdleCall]
    /\ charts_returned = [dt \in Instants |-> {}]
    /\ HouseIdle
    /\ RatingIdle
    /\ EventIdle
    /\ AreaIdle
    /\ ForecastIdle

OtherUnchanged == UNCHANGED <<houseVars, ratingVars, event, areaVars, forecastVars>>

\* calculate_chart(date, time, lat, lon) is entered, or one round of the
\* window loop of get_transit_predictions
StartCall(p) ==
    /\ call[p].pc = "idle"
    /\ \E dt \in Instants, kind \in CallKinds :
         call' = [call EXCEPT ![p] = [IdleCall EXCEPT !.kind = kind, !.pc = "julday",
                                                      !.dt = dt]]
    /\ UNCHANGED <<sid_mode, charts_returned>>
    /\ OtherUnchanged

\* jd = get_julian_day(dt)
JulianDay(p) ==
    /\ call[p].pc = "julday"
    /\ \E ok \in BOOLEAN :
         call' = [call EXCEPT ![p] =
                    IF ok THEN [call[p] EXCEPT !.jd = swe_julday(call[p].dt),
                                               !.pc = "ayanamsa",
                                               !.ayan_steps = get_ayanamsa_steps]
                    ELSE Raise(call[p], "ProviderFailure")]
    /\ UNCHANGED <<sid_mode, charts_returned>>
    /\ OtherUnchanged

AyanamsaStepDone(c) ==
    [c EXCEPT !.ayan_steps = Tail(@),
              !.pc = IF Tail(c.ayan_steps) = <<>> THEN AfterAyanamsa(c) ELSE "ayanamsa"]

\* swe.set_sid_mode(AYANAMSA)
SetSidMode(p) ==
    /\ call[p].pc = "ayanamsa"
    /\ Head(call[p].ayan_steps) = "set_sid_mode"
    /\ sid_mode' = SidModeArgument(call[p].kind)
    /\ call' = [call EXCEPT ![p] = AyanamsaStepDone(call[p])]
    /\ UNCHANGED charts_returned
    /\ OtherUnchanged

\* return swe.get_ayanamsa(jd)
SweGetAyanamsa(p) ==
    /\ call[p].pc = "ayanamsa"
    /\ Head(call[p].ayan_steps) = "get_ayanamsa"
    /\ \E ok \in BOOLEAN :
         call' = [call EXCEPT ![p] =
                    IF ok THEN AyanamsaStepDone(
                                 [call[p] EXCEPT
                                    !.ayanamsa = swe_get_ayanamsa(sid_mode, call[p].jd)])
                    ELSE Raise(call[p], "ProviderFailure")]
    /\ UNCHANGED <<sid_mode, charts_returned>>
    /\ OtherUnchanged

\* one round of the loop over the 9 planets of get_complete_chart
CalcPlanet(p) ==
    /\ call[p].pc = "planets"
    /\ call[p].kind = "chart"
    /\ LET c == call[p]
           planet_name == PlanetOrder[Len(c.longs) + 1]
           plong == get_planet_longitude(planet_name, c.jd, c.ayanamsa)
           got == [c EXCEPT !.longs = Append(@, plong)]
       IN  \E ok \in BOOLEAN :
             call' = [call EXCEPT ![p] =
               IF ~ok THEN Raise(c, "ProviderFailure")
               ELSE IF SignRaises(plong) \/ NakshatraRaises(plong)
               THEN Raise(got, "IndexError")
               ELSE [got EXCEPT
                       !.planets = Append(@, PlanetEntry(planet_name, c.jd, c.ayanamsa)),
                       !.pc = IF Len(got.longs) = Len(PlanetOrder)
                              THEN "ascendant" ELSE "planets"]]
    /\ UNCHANGED <<sid_mode, charts_returned>>
    /\ OtherUnchanged

\* asc_long = get_ascendant(...); asc_sign, asc_degrees = longitude_to_sign(asc_long)
Ascendant(p) ==
    /\ call[p].pc = "ascendant"
    /\ LET c == call[p]
           got == [c EXCEPT !.asc = get_ascendant(c.jd, c.ayanamsa)]
       IN  \E ok \in BOOLEAN :
             call' = [call EXCEPT ![p] =
               IF ~ok THEN Raise(c, "ProviderFailure")
               ELSE IF SignRaises(got.asc) THEN Raise(got, "IndexError")
               ELSE [got EXCEPT !.pc = "cusps"]]
    /\ UNCHANGED <<sid_mode, charts_returned>>
    /\ OtherUnchanged

\* the value get_complete_chart returns
ChartValue(c, planets, cusps) ==
    [status |-> "chart",
     birth_details |-> [dt |-> c.dt, julian_day |-> c.jd, ayanamsa |-> c.ayanamsa],
     ascendant |-> [longitude |-> c.asc, sign |-> longitude_to_sign(c.asc)[1],
                    degrees |-> longitude_to_sign(c.asc)[2]],
     planets |-> planets,
     houses |-> HousesData(planets, cusps)]

\* house_cusps = get_house_cusps(...), then the rest of get_complete_chart
HouseCuspsAndAssemble(p) ==
    /\ call[p].pc = "cusps"
    /\ call[p].kind = "chart"
    /\ LET c == call[p]
           got == [c EXCEPT !.cusps = get_house_cusps(c.jd, c.ayanamsa)]
           assigned == AssignHouses(c.planets, got.cusps)
       IN  \E ok \in BOOLEAN :
             call' = [call EXCEPT ![p] =
               IF ~ok THEN Raise(c, "ProviderFailure")
               ELSE IF \E h \in 1..NumHouses : SignRaises(got.cusps[h])
               THEN Raise(got, "IndexError")
               ELSE [got EXCEPT !.planets = assigned, !.pc = "done",
                                !.result = ChartValue(got, assigned, got.cusps)]]
    /\ UNCHANGED <<sid_mode, charts_returned>>
    /\ OtherUnchanged

\* house_cusps = get_house_cusps(...) of get_transit_predictions
WindowCusps(p) ==
    /\ call[p].pc = "cusps"
    /\ call[p].kind = "window"
    /\ \E ok \in BOOLEAN :
         call' = [call EXCEPT ![p] =
           IF ~ok THEN Raise(call[p], "ProviderFailure")
           ELSE [call[p] EXCEPT !.cusps = get_house_cusps(call[p].jd, call[p].ayanamsa),
                                !.key_areas = NewKeyAreas, !.pc = "planets"]]
    /\ UNCHANGED <<sid_mode, charts_returned>>
    /\ OtherUnchanged

\* one round of the loop over the 7 transiting planets
TransitPlanet(p) ==
    /\ call[p].pc = "planets"
    /\ call[p].kind = "window"
    /\ LET c == call[p]
           planet == TransitPlanets[Len(c.longs) + 1]
           transit_long == get_planet_longitude(planet, c.jd, c.ayanamsa)
           got == [c EXCEPT !.longs = Append(@, transit_long)]
           entry == TransitEntry(planet, c.jd, c.ayanamsa, c.cusps)
       IN  \E ok \in BOOLEAN :
             call' = [call EXCEPT ![p] =
               IF ~ok THEN Raise(c, "ProviderFailure")
               ELSE IF SignRaises(transit_long) THEN Raise(got, "IndexError")
               ELSE [got EXCEPT
                       !.transits = Append(@, entry),
                       !.key_areas = _update_area_scores(@, entry.effect,
                                                         entry.transit_house),
                       !.pc = IF Len(got.longs) = Len(TransitPlanets)
                              THEN "rate" ELSE "planets"]]
    /\ UNCHANGED <<sid_mode, charts_returned>>
    /\ OtherUnchanged

\* the value appended to predictions for one window
WindowValue(c) ==
    [status |-> "window", dt |-> c.dt, transits |-> c.transits,
     key_areas |-> c.key_areas,
     overall_rating |-> _calculate_overall_rating(c.key_areas)]

\* overall_rating and summary of the window
RateWindow(p) ==
    /\ call[p].pc = "rate"
    /\ call' = [call EXCEPT ![p] = [call[p] EXCEPT !.pc = "done",
                                                   !.result = WindowValue(call[p])]]
    /\ UNCHANGED <<sid_mode, charts_returned>>
    /\ OtherUnchanged

\* the caller receives the chart or the exception; the thread is free again
Return(p) ==
    /\ call[p].pc \in {"done", "failed"}
    /\ charts_returned' =
         IF call[p].pc = "done" /\ call[p].kind = "chart"
         THEN [charts_returned EXCEPT ![call[p].dt] = @ \cup {call[p].result}]
         ELSE charts_returned
    /\ call' = [call EXCEPT ![p] = IdleCall]
    /\ UNCHANGED sid_mode
    /\ OtherUnchanged

ChartNext ==
    \E p \in Procs :
        \/ StartCall(p)
        \/ JulianDay(p)
        \/ SetSidMode(p)
        \/ SweGetAyanamsa(p)
        \/ CalcPlanet(p)
        \/ Ascendant(p)
        \/ HouseCuspsAndAssemble(p)
        \/ WindowCusps(p)
        \/ TransitPlanet(p)
        \/ RateWindow(p)
        \/ Return(p)

SpecChart == ChartInit /\ [][ChartNext]_vars

(***************************************************************************)
(* Properties of the Chart Builder                                         *)
(***************************************************************************)
ChartDone(p) == call[p].pc = "done" /\ call[p].kind = "chart"

\* C2: in every returned chart each of the 9 bodies has a house in 1..12
\* and is listed by exactly one of the 12 houses, the one of its house field.
C2_EveryBodyInOneHouse ==
    \A p \in Procs : ChartDone(p) =>
        LET chart == call[p].result
        IN  /\ Len(chart.planets) = Len(PlanetOrder)
            /\ \A i \in 1..Len(chart.planets) :
                  /\ chart.planets[i].house \in 1..NumHouses
                  /\ \A h \in 1..NumHouses :
                        (\E k \in 1..Len(chart.houses[h].planets) :
                            chart.houses[h].planets[k] = chart.planets[i].name)
                        <=> h = chart.planets[i].house
            /\ \A h \in 1..NumHouses : \A k, l \in 1..Len(chart.houses[h].planets) :
                  chart.houses[h].planets[k] = chart.houses[h].planets[l] => k = l

\* a returned chart with two bodies in one house and a body in the house
\* whose interval wraps past 0/360
C2_Witness ==
    \E p \in Procs :
        /\ ChartDone(p)
        /\ \E h \in 1..NumHouses : Len(call[p].result.houses[h].planets) >= 2
        /\ \E i \in 1..Len(PlanetOrder) :
              LET h == call[p].result.planets[i].house
              IN  CuspEnd(call[p].cusps, h - 1) < CuspStart(call[p].cusps, h - 1)

InCircle(x) == 0 <= x /\ x < FullCircle

\* C3: every sidereal longitude returned by get_planet_longitude,
\* get_ascendant and get_house_cusps is in [0,360), whatever the ayanamsa.
C3_LongitudesNormalized ==
    \A p \in Procs :
        /\ \A i \in 1..Len(call[p].longs) : InCircle(call[p].longs[i])
        /\ InCircle(call[p].asc)
        /\ \A i \in 1..Len(call[p].cusps) : InCircle(call[p].cusps[i])

\* C7: two calls of calculate_chart with the same inputs return equal charts,
\* whatever calls ran before or between them.
C7_ChartIdempotent ==
    /\ \A dt \in Instants : Cardinality(charts_returned[dt]) <= 1
    /\ \A p \in Procs : ChartDone(p) =>
          \A earlier \in charts_returned[call[p].dt] : earlier = call[p].result
    /\ \A p, q \in Procs :
          (ChartDone(p) /\ ChartDone(q) /\ call[p].dt = call[q].dt)
          => call[p].result = call[q].result

\* a chart was returned before for the same instant, a window call is under
\* way on the other thread, and the second chart call has finished
C7_Witness ==
    \E p, q \in Procs :
        /\ ChartDone(p)
        /\ charts_returned[call[p].dt] = {call[p].result}
        /\ call[q].kind = "window" /\ call[q].pc = "planets"

PlanetFields ==
    {"longitude", "sign", "nakshatra", "nakshatra_pada", "house", "is_exalted",
     "is_debilitated", "is_retrograde"}

CompleteChart(chart) ==
    /\ chart.status = "chart"
    /\ Len(chart.planets) = Len(PlanetOrder)
    /\ \A i \in 1..Len(PlanetOrder) :
          /\ chart.planets[i].name = PlanetOrder[i]
          /\ PlanetFields \subseteq DOMAIN chart.planets[i]
          /\ chart.planets[i].house \in 1..NumHouses
          /\ chart.planets[i].nakshatra_pada \in 1..4
    /\ Len(chart.houses) = NumHouses

\* C8: a failed provider call ends the build in a failure and no Chart value;
\* every Chart returned holds all 9 bodies with their fields and 12 houses.
C8_NoPartialChart ==
    /\ \A p \in Procs :
          /\ call[p].pc = "failed" => call[p].result = NoChart
          /\ call[p].error # "none" => call[p].pc = "failed"
          /\ ChartDone(p) => CompleteChart(call[p].result)
    /\ \A dt \in Instants : \A chart \in charts_returned[dt] : CompleteChart(chart)

\* the provider failed at the house cusps, after all 9 bodies were placed
C8_Witness ==
    \E p \in Procs :
        /\ call[p].pc = "failed"
        /\ call[p].kind = "chart"
        /\ call[p].error = "ProviderFailure"
        /\ call[p].failed_at = "cusps"
        /\ Len(call[p].planets) = Len(PlanetOrder)
        /\ call[p].result = NoChart

\* what one call returns when nothing else runs
AloneAyanamsa(dt) == swe_get_ayanamsa(AYANAMSA, swe_julday(dt))

AloneChartRaises(dt) ==
    LET jd == swe_julday(dt)
        ay == AloneAyanamsa(dt)
    IN  \/ \E i \in 1..Len(PlanetOrder) :
             LET l == get_planet_longitude(PlanetOrder[i], jd, ay)
             IN  SignRaises(l) \/ NakshatraRaises(l)
        \/ SignRaises(get_ascendant(jd, ay))
        \/ \E h \in 1..NumHouses : SignRaises(get_house_cusps(jd, ay)[h])

AloneChart(dt) ==
    LET jd == swe_julday(dt)
        ay == AloneAyanamsa(dt)
        cusps == get_house_cusps(jd, ay)
        planets == AssignHouses(
            [i \in 1..Len(PlanetOrder) |-> PlanetEntry(PlanetOrder[i], jd, ay)], cusps)
    IN  ChartValue([dt |-> dt, jd |-> jd, ayanamsa |-> ay,
                    asc |-> get_ascendant(jd, ay)], planets, cusps)

AloneWindowRaises(dt) ==
    \E i \in 1..Len(TransitPlanets) :
        SignRaises(get_planet_longitude(TransitPlanets[i], swe_julday(dt),
                                        AloneAyanamsa(dt)))

RECURSIVE AloneScores(_, _, _)
AloneScores(transits, i, ka) ==
    IF i > Len(transits) THEN ka
    ELSE AloneScores(transits, i + 1,
            _update_area_scores(ka, transits[i].effect, transits[i].transit_house))

AloneWindow(dt) ==
    LET jd == swe_julday(dt)
        ay == AloneAyanamsa(dt)
        cusps == get_house_cusps(jd, ay)
        transits == [i \in 1..Len(TransitPlanets) |->
                        TransitEntry(TransitPlanets[i], jd, ay, cusps)]
    IN  WindowValue([dt |-> dt, transits |-> transits,
                     key_areas |-> AloneScores(transits, 1, NewKeyAreas)])

TransitPlanetNames == {TransitPlanets[i] : i \in 1..Len(TransitPlanets)}

\* the keys of key_areas in the order of the dict
AreaOrder == <<"love", "career", "wealth", "health">>

SummaryTone(rating) ==
    IF rating >= 8 THEN "Excellent month ahead!"
    ELSE IF rating >= 6 THEN "Positive month with good opportunities."
    ELSE IF rating >= 4 THEN "Mixed month requiring balance and patience."
    ELSE "Challenging month requiring caution and planning."

\* sorted(areas.items(), key=lambda x: x[1]["score"], reverse=True)
SortedAreas(ka) ==
    CHOOSE sorted \in
        {[r \in DOMAIN order |-> AreaOrder[order[r]]] :
         order \in {StableOrderDescending(
                        [n \in 1..Len(AreaOrder) |-> ka[AreaOrder[n]]])}} : TRUE

\* the summary sentence, by its parts
_generate_monthly_summary(rating, ka) ==
    [tone |-> SummaryTone(rating),
     strongest |-> SortedAreas(ka)[1],
     weakest |-> SortedAreas(ka)[Len(AreaOrder)],
     rating |-> rating]

\* rating = max(1, min(10, 5 + score))
AreaRating(score) == Max(1, Min(10, 5 + score))

AreaQuality(rating) ==
    IF rating >= 8 THEN "Excellent"
    ELSE IF rating >= 6 THEN "Good"
    ELSE IF rating >= 4 THEN "Average"
    ELSE "Challenging"

\* a window no area report has looked at
NoReport == [area |-> "none", score |-> 0, rating |-> 0, quality |-> "none"]

\* "summary": "" of a new window
NoSummary == [tone |-> "", strongest |-> "", weakest |-> "", rating |-> 0]

\* the houses of the bodies of one window: all but MaxApartBodies of them
\* share a house
TransitHouseInputs ==
    {[p \in TransitPlanetNames |-> IF p \in DOMAIN g THEN g[p] ELSE shared] :
        shared \in 1..NumHouses,
        g \in UNION {[apart -> 1..NumHouses] :
                        apart \in {S \in SUBSET TransitPlanetNames :
                                        Cardinality(S) <= MaxApartBodies}}}

\* natal_chart["planets"], body -> house: two natal charts that agree on no
\* body
NatalChartInputs ==
    {[b \in TransitPlanetNames |-> 1],
     [b \in TransitPlanetNames |->
        5 + (CHOOSE n \in 1..Len(TransitPlanets) : TransitPlanets[n] = b)]}

WindowInit ==
    /\ \E houses \in TransitHouseInputs, natal_chart \in NatalChartInputs :
         window = [pc |-> "transits", houses |-> houses,
                   natal_chart |-> natal_chart, i |-> 1,
                   transits |-> <<>>, key_areas |-> NewKeyAreas,
                   overall_rating |-> 0, summary |-> NoSummary,
                   report |-> NoReport]
    /\ YearlyIdle
    /\ ConvertIdle
    /\ WildcardIdle
    /\ ReportIdle
    /\ HouseIdle
    /\ RatingIdle
    /\ EventIdle
    /\ AreaIdle
    /\ ChartIdle

WindowUnchanged ==
    UNCHANGED <<houseVars, ratingVars, event, areaVars, chartVars,
                yearly, convert, wildcard, reportVars>>

\* one round of "for planet_name in [...]": the effect of the transit, its
\* entry in month_predictions["transits"], and _update_area_scores
AnalyzeTransit ==
    /\ window.pc = "transits"
    /\ LET planet_name == TransitPlanets[window.i]
           transit_house == window.houses[planet_name]
           natal_house == window.natal_chart[planet_name]
           effect == _analyze_transit_effect(planet_name, transit_house,
                                             natal_house, window.natal_chart)
       IN  window' = [window EXCEPT
                !.transits = Append(@, [planet |-> planet_name,
                                        transit_house |-> transit_house,
                                        effect |-> effect]),
                !.key_areas = _update_area_scores(@, effect, transit_house),
                !.i = @ + 1,
                !.pc = IF window.i = Len(TransitPlanets) THEN "rating"
                       ELSE "transits"]
    /\ WindowUnchanged

\* month_predictions["overall_rating"] = _calculate_overall_rating(key_areas)
\* and month_predictions["summary"] = _generate_monthly_summary(...)
RateMonth ==
    /\ window.pc = "rating"
    /\ \E rating \in {_calculate_overall_rating(window.key_areas)} :
         window' = [window EXCEPT
            !.overall_rating = rating,
            !.summary = _generate_monthly_summary(rating, window.key_areas),
            !.pc = "rated"]
    /\ WindowUnchanged

\* generate_area_specific_predictions, one round of "for month_data in
\* monthly_predictions": the rating and quality of the area in the window
ReportArea ==
    /\ window.pc = "rated"
    /\ \E area \in Areas :
         window' = [window EXCEPT
            !.report = [area |-> area,
                        score |-> window.key_areas[area],
                        rating |-> AreaRating(window.key_areas[area]),
                        quality |-> AreaQuality(AreaRating(window.key_areas[area]))],
            !.pc = "reported"]
    /\ WindowUnchanged

WindowNext == AnalyzeTransit \/ RateMonth \/ ReportArea

SpecWindow == WindowInit /\ [][WindowNext]_vars

(***************************************************************************)
(* Properties of the Transit Evaluator and the Window Aggregator           *)
(***************************************************************************)
BeneficBodies == {"Jupiter", "Venus", "Mercury"}

MaleficBodies == {"Saturn", "Mars"}

LoveHouses == {5, 7, 11}

\* the houses that feed a life area
FeedingHouses(area) ==
    CASE area = "love"   -> {5, 7, 11}
      [] area = "wealth" -> {2, 11}
      [] area = "health" -> {1, 6}
      [] area = "career" -> {10, 6}

EffectDelta(effect) ==
    IF effect = "positive" THEN 2 ELSE IF effect = "challenging" THEN -2 ELSE 0

\* sum of the deltas of the transits whose house feeds the area
RECURSIVE FedScore(_, _, _)
FedScore(transits, area, n) ==
    IF n = 0 THEN 0
    ELSE FedScore(transits, area, n - 1)
         + (IF transits[n].transit_house \in FeedingHouses(area)
            THEN EffectDelta(transits[n].effect) ELSE 0)

\* C11: a window in which 3 bodies are positive in love-linked houses
\* (5, 7, 11) and no body is challenging has a love score of +6 and an
\* overall rating of clamp(5 + 3, 1, 10) = 8.
C11_ThreePositiveInLoveHouses ==
    LET t == window.transits
        positive_in_love == {n \in 1..Len(t) : /\ t[n].effect = "positive"
                                               /\ t[n].transit_house \in LoveHouses}
        challenging == {n \in 1..Len(t) : t[n].effect = "challenging"}
    IN  (/\ window.pc = "rated"
         /\ Cardinality(positive_in_love) = 3
         /\ challenging = {})
        => /\ window.key_areas["love"] = 6
           /\ window.overall_rating = 8

\* C17: the effect of body b transiting house h is positive iff h is benefic
\* and b is Jupiter, Venus or Mercury; challenging iff h is in {6,8,12} and b
\* is Saturn or Mars; mixed iff h is benefic and b malefic, or h challenging
\* and b benefic; neutral otherwise (house 3; the Sun and the Moon anywhere).
C17_EffectTable ==
    window.pc # "idle" =>
    \A n \in 1..Len(window.transits) :
        LET b == window.transits[n].planet
            h == window.transits[n].transit_house
            e == window.transits[n].effect
            mixed == \/ (h \in BeneficHouses /\ b \in MaleficBodies)
                     \/ (h \in ChallengingHouses /\ b \in BeneficBodies)
        IN  /\ e = "positive" <=> (h \in BeneficHouses /\ b \in BeneficBodies)
            /\ e = "challenging" <=> (h \in ChallengingHouses /\ b \in MaleficBodies)
            /\ e = "mixed" <=> mixed
            /\ e = "neutral" <=> ~(\/ (h \in BeneficHouses /\ b \in BeneficBodies)
                                   \/ (h \in ChallengingHouses /\ b \in MaleficBodies)
                                   \/ mixed)

\* C18: each transit adds its delta (+2, -2, 0, 0) to every life area its
\* house feeds (5,7,11 love; 2,11 wealth; 1,6 health; 10,6 career): house 11
\* changes love and wealth, house 6 health and career, others of 3, 4, 8, 9,
\* 12 nothing.
C18_HouseFeedsEveryArea ==
    window.pc # "idle" =>
    \A area \in Areas :
        window.key_areas[area]
            = FedScore(window.transits, area, Len(window.transits))

(***************************************************************************)
(* Forecast Composer: generate_yearly_predictions and the window loop of   *)
(* get_transit_predictions.  A datetime is a Date and the seconds since    *)
(* midnight.                                                               *)
(***************************************************************************)
Datetime(date, seconds) == [date |-> date, seconds |-> seconds]

\* a <= b on datetimes
DatetimeLE(a, b) ==
    LET ka == <<a.date.year, a.date.month, a.date.day, a.seconds>>
        kb == <<b.date.year, b.date.month, b.date.day, b.seconds>>
        differ == {n \in 1..4 : ka[n] # kb[n]}
    IN  IF differ = {} THEN TRUE
        ELSE LET n == CHOOSE m \in differ : \A k \in differ : m <= k
             IN  ka[n] < kb[n]

\* dt + timedelta(days=n)
AddDaysToDatetime(dt, n) == Datetime(AddDays(dt.date, n), dt.seconds)

DaysInYear == 365

\* datetime.now(): any day of the years looked at, at midnight or at noon
TodayInputs ==
    {Datetime(Date(y, m, d), sec) :
        y \in 2023..(2023 + MaxYearSpan), m \in 1..12, d \in 1..31,
        sec \in {0, 43200}}
    \ {dt \in {Datetime(Date(y, m, d), sec) :
                   y \in 2023..(2023 + MaxYearSpan), m \in 1..12, d \in 29..31,
                   sec \in {0, 43200}} : dt.date.day > DaysInMonth(dt.date.year, dt.date.month)}

\* bug variant: the day and the time of day are carried into the next month
NextWindowStartSameDay(current_date) ==
    LET next_month == (current_date.date.month % 12) + 1
        next_year == current_date.date.year + (IF next_month = 1 THEN 1 ELSE 0)
    IN  Datetime(Date(next_year, next_month, current_date.date.day),
                 current_date.seconds)

\* next_month = current_date.month % 12 + 1
\* next_year = current_date.year + (1 if next_month == 1 else 0)
\* current_date = datetime(next_year, next_month, 1)
NextWindowStart(current_date) ==
    LET next_month == (current_date.date.month % 12) + 1
        next_year == current_date.date.year + (IF next_month = 1 THEN 1 ELSE 0)
    IN  Datetime(Date(next_year, next_month, 1), 0)

\* today = datetime.now(); end_date = today + timedelta(days=365)
YearlyInit ==
    /\ \E today \in TodayInputs :
         yearly = [pc |-> "windows", today |-> today,
                   end_date |-> AddDaysToDatetime(today, DaysInYear),
                   current_date |-> today, predictions |-> <<>>]
    /\ WindowIdle
    /\ ConvertIdle
    /\ WildcardIdle
    /\ ReportIdle
    /\ HouseIdle
    /\ RatingIdle
    /\ EventIdle
    /\ AreaIdle
    /\ ChartIdle

YearlyUnchanged ==
    UNCHANGED <<houseVars, ratingVars, event, areaVars, chartVars,
                window, convert, wildcard, reportVars>>

\* one round of "while current_date <= end_date": the window starting at
\* current_date is appended, current_date moves to the 1st of the next month
MonthRound ==
    /\ yearly.pc = "windows"
    /\ DatetimeLE(yearly.current_date, yearly.end_date)
    /\ yearly' = [yearly EXCEPT
            !.predictions = Append(@, yearly.current_date),
            !.current_date = NextWindowStart(yearly.current_date)]
    /\ YearlyUnchanged

\* the loop ends; the overview is built from the windows and returned
YearlyOverview ==
    /\ yearly.pc = "windows"
    /\ ~DatetimeLE(yearly.current_date, yearly.end_date)
    /\ yearly' = [yearly EXCEPT !.pc = "returned"]
    /\ YearlyUnchanged

YearlyNext == MonthRound \/ YearlyOverview

SpecYearly == YearlyInit /\ [][YearlyNext]_vars

\* C12: the yearly overview is built from exactly 12 successive monthly
\* windows starting at the current instant, whatever the current date.
C12_TwelveWindows ==
    yearly.pc = "returned"
    => /\ Len(yearly.predictions) = 12
       /\ yearly.predictions[1] = yearly.today

(***************************************************************************)
(* Coordinate Normalizer: the conversions of LocalCalculate on their own.  *)
(* get_nakshatra takes its longitude in millionths of a degree, the others *)
(* in whole degrees.                                                       *)
(***************************************************************************)
IndexError == <<"IndexError">>

\* longitudes on, next to and between the points where int() steps
NakshatraLongitudeInputs ==
    ({k * NakshatraSpanMicro + q * PadaSpanMicro + e :
            k \in 0..Len(NAKSHATRAS), q \in 0..4, e \in {-1, 0, 1, 2}}
     \cup {d * MicroDegree : d \in 0..(FullCircle - 1)})
    \cap (0..(FullCircle * MicroDegree - 1))

\* whole degrees of the circle and, as get_planet_longitude can return
\* them (C3), of the sign after it
SignLongitudeInputs == 0..(FullCircle + SignWidth - 1)

TropicalInputs == 0..(FullCircle - 1)

\* swe.get_ayanamsa: negative before the zero epoch of the Lahiri mode
AyanamsaInputs == {-5, -3, 0, 23, 24}

ConvertInit ==
    /\ \/ \E x \in NakshatraLongitudeInputs :
            convert = [pc |-> "called", fn |-> "get_nakshatra", longitude |-> x]
       \/ \E x \in SignLongitudeInputs :
            convert = [pc |-> "called", fn |-> "longitude_to_sign", longitude |-> x]
       \/ \E t \in TropicalInputs, a \in AyanamsaInputs :
            convert = [pc |-> "called", fn |-> "get_planet_longitude",
                       tropical_long |-> t, ayanamsa |-> a]
    /\ WindowIdle
    /\ YearlyIdle
    /\ WildcardIdle
    /\ ReportIdle
    /\ HouseIdle
    /\ RatingIdle
    /\ EventIdle
    /\ AreaIdle
    /\ ChartIdle

ConvertUnchanged ==
    UNCHANGED <<houseVars, ratingVars, event, areaVars, chartVars,
                window, yearly, wildcard, reportVars>>

\* return NAKSHATRAS[nakshatra_index], pada
GetNakshatra ==
    /\ convert.pc = "called"
    /\ convert.fn = "get_nakshatra"
    /\ convert' =
         [pc |-> "returned", fn |-> convert.fn, longitude |-> convert.longitude,
          result |-> IF NakshatraIndexAt(convert.longitude) >= Len(NAKSHATRAS)
                     THEN IndexError
                     ELSE <<NAKSHATRAS[NakshatraIndexAt(convert.longitude) + 1],
                            PadaAt(convert.longitude)>>]
    /\ ConvertUnchanged

\* return ZODIAC_SIGNS[sign_index], degrees_in_sign
LongitudeToSign ==
    /\ convert.pc = "called"
    /\ convert.fn = "longitude_to_sign"
    /\ convert' =
         [pc |-> "returned", fn |-> convert.fn, longitude |-> convert.longitude,
          result |-> IF SignRaises(convert.longitude) THEN IndexError
                     ELSE longitude_to_sign(convert.longitude)]
    /\ ConvertUnchanged

\* get_planet_longitude for the two lunar nodes: PLANET_IDS gives both the
\* mean node, so the provider returns one tropical longitude for them
GetNodeLongitudes ==
    /\ convert.pc = "called"
    /\ convert.fn = "get_planet_longitude"
    /\ convert' =
         [pc |-> "returned", fn |-> convert.fn,
          tropical_long |-> convert.tropical_long, ayanamsa |-> convert.ayanamsa,
          Rahu |-> SiderealLongitude("Rahu", convert.tropical_long, convert.ayanamsa),
          Ketu |-> SiderealLongitude("Ketu", convert.tropical_long, convert.ayanamsa)]
    /\ ConvertUnchanged

ConvertNext == GetNakshatra \/ LongitudeToSign \/ GetNodeLongitudes

SpecConvert == ConvertInit /\ [][ConvertNext]_vars

(***************************************************************************)
(* Properties of the conversions                                           *)
(***************************************************************************)
ConvertReturned(fn) == convert.pc = "returned" /\ convert.fn = fn

\* a mansion is 13 deg 20 min = 40/3 degrees, a pada 3 deg 20 min = 10/3
MansionOf(micro) ==
    CHOOSE k \in 0..(Len(NAKSHATRAS) - 1) :
        /\ 40 * MicroDegree * k <= 3 * micro
        /\ 3 * micro < 40 * MicroDegree * (k + 1)

QuarterOf(micro) ==
    CHOOSE p \in 1..4 :
        /\ 10 * MicroDegree * (p - 1) <= 3 * micro - 40 * MicroDegree * MansionOf(micro)
        /\ 3 * micro - 40 * MicroDegree * MansionOf(micro) < 10 * MicroDegree * p

\* C13: for every longitude in [0,360) get_nakshatra returns one of the 27
\* mansions and a pada in 1..4: mansion k exactly on [k*13d20', (k+1)*13d20')
\* and pada p exactly on the p-th 3d20' quarter of it; never index 27, never
\* pada 5.
C13_MansionAndPada ==
    ConvertReturned("get_nakshatra")
    => /\ convert.result # IndexError
       /\ convert.result[1] = NAKSHATRAS[MansionOf(convert.longitude) + 1]
       /\ convert.result[2] = QuarterOf(convert.longitude)
       /\ convert.result[2] \in 1..4

\* C14: for every longitude x in [0,360) longitude_to_sign returns a sign of
\* index 0..11 and a degree-in-sign d with 0 <= d < 30 and index*30 + d = x.
C14_SignAndDegree ==
    (ConvertReturned("longitude_to_sign") /\ convert.longitude < 360)
    => /\ convert.result # IndexError
       /\ \E index \in 0..11 :
            /\ convert.result[1] = ZODIAC_SIGNS[index + 1]
            /\ convert.result[2] >= 0
            /\ convert.result[2] < 30
            /\ index * 30 + convert.result[2] = convert.longitude

\* x = 15 gives Aries with d = 15; x = 359 gives the last sign
C14_Witness ==
    \/ /\ ConvertReturned("longitude_to_sign")
       /\ convert.longitude = 15
       /\ convert.result = <<"Aries", 15>>
    \/ /\ ConvertReturned("longitude_to_sign")
       /\ convert.longitude = 359
       /\ convert.result = <<"Pisces", 29>>

\* C15: the longitude computed for Ketu is (the longitude computed for Rahu
\* + 180) mod 360, for every tropical node longitude and every ayanamsa.
C15_KetuOppositeRahu ==
    ConvertReturned("get_planet_longitude")
    => convert.Ketu = (convert.Rahu + 180) % 360

\* the sidereal node falls below 0 and Rahu is brought back onto the circle
C15_Witness ==
    /\ ConvertReturned("get_planet_longitude")
    /\ convert.tropical_long < convert.ayanamsa
    /\ convert.Rahu = convert.tropical_long - convert.ayanamsa + 360
    /\ convert.Ketu < convert.Rahu

(***************************************************************************)
(* Forecast Composer: the event date of generate_wildcard_prediction.      *)
(* A date string is the shape of its text and the numbers written in it:   *)
(* "ymd" is NNNN-N-N, "ymy" is NNNN-NN-NNNN, "slash" is N/N/NNNN.          *)
(***************************************************************************)
NoString == [shape |-> "none"]

YmdString(y, m, d) == [shape |-> "ymd", a |-> y, b |-> m, c |-> d]

\* specific_date of the request
SpecificDateInputs ==
    {NoString, [shape |-> "other"]}
    \cup {YmdString(2025, m, d) : m \in {2, 12, 13}, d \in {15, 30}}
    \cup {[shape |-> "ymy", a |-> 2025, b |-> m, c |-> y2] :
              m \in {11, 13}, y2 \in {2025, 2026}}
    \cup {[shape |-> "slash", a |-> 12, b |-> 25, c |-> 2025],
          [shape |-> "slash", a |-> 25, b |-> 12, c |-> 2025]}

\* the query text: the first date written in it (DD/MM/YYYY), if any
QueryDateInputs ==
    {NoString,
     [shape |-> "slash", a |-> 15, b |-> 12, c |-> 2025],
     [shape |-> "slash", a |-> 31, b |-> 2, c |-> 2025]}

\* datetime.strptime(s, "%Y-%m-%d") returns a date
StrptimeYmd(s) ==
    /\ s.shape = "ymd"
    /\ s.a \in 1..9999
    /\ s.b \in 1..12
    /\ s.c >= 1
    /\ s.c <= DaysInMonth(s.a, s.b)

\* extract_date_from_query: DD/MM/YYYY becomes f"{YYYY}-{MM:02d}-{DD:02d}"
extract_date_from_query(query) ==
    IF query.shape = "slash" THEN YmdString(query.c, query.b, query.a)
    ELSE NoString

\* _fix_date_format: "2025-11-2025" becomes "2025-11-25"; N/N/NNNN is read as
\* MM/DD/YYYY by the first of the two equal patterns; anything else is None
_fix_date_format(date_str) ==
    IF /\ date_str.shape = "ymy"
       /\ date_str.a = date_str.c
       /\ (date_str.c % 100) \in 1..31
    THEN YmdString(date_str.a, date_str.b, date_str.c % 100)
    ELSE IF date_str.shape = "slash"
    THEN YmdString(date_str.c, date_str.a, date_str.b)
    ELSE NoString

\* strftime("%Y-%m-%d")
StrftimeYmd(date) == YmdString(date.year, date.month, date.day)

DefaultDaysAhead == 15

\* lines 934-964: the string the event date is parsed from, whether it
\* counts as extracted, and where it came from
ResolveSpecificDate(specific_date, query, now) ==
    LET given == IF specific_date # NoString THEN specific_date
                 ELSE extract_date_from_query(query)
        origin == IF specific_date # NoString THEN "explicit" ELSE "query"
        fallback == [specific_date |-> StrftimeYmd(AddDays(now, DefaultDaysAhead)),
                     date_extracted |-> FALSE, origin |-> "default"]
    IN  IF given = NoString THEN fallback
        ELSE IF StrptimeYmd(given)
        THEN [specific_date |-> given, date_extracted |-> TRUE, origin |-> origin]
        ELSE IF _fix_date_format(given) # NoString
        THEN [specific_date |-> _fix_date_format(given), date_extracted |-> TRUE,
              origin |-> "fixed"]
        ELSE IF extract_date_from_query(query) # NoString
        THEN [specific_date |-> extract_date_from_query(query),
              date_extracted |-> TRUE, origin |-> "query"]
        ELSE fallback

WildcardInit ==
    /\ \E sd \in SpecificDateInputs, q \in QueryDateInputs, now \in NowInputs :
         wildcard = [pc |-> "called", given |-> sd, query |-> q, now |-> now,
                     specific_date |-> sd, date_extracted |-> FALSE,
                     origin |-> "none", event_date |-> NoDate, error |-> "none"]
    /\ WindowIdle
    /\ YearlyIdle
    /\ ConvertIdle
    /\ ReportIdle
    /\ HouseIdle
    /\ RatingIdle
    /\ EventIdle
    /\ AreaIdle
    /\ ChartIdle

WildcardUnchanged ==
    UNCHANGED <<houseVars, ratingVars, event, areaVars, chartVars,
                window, yearly, convert, reportVars>>

\* "Extract date from query if not provided or invalid"
ResolveDate ==
    /\ wildcard.pc = "called"
    /\ LET r == ResolveSpecificDate(wildcard.given, wildcard.query, wildcard.now)
       IN  wildcard' = [wildcard EXCEPT !.pc = "resolved",
                            !.specific_date = r.specific_date,
                            !.date_extracted = r.date_extracted,
                            !.origin = r.origin]
    /\ WildcardUnchanged

\* try: event_date = datetime.strptime(specific_date, "%Y-%m-%d")
\* except ValueError: event_date = datetime.now() + timedelta(days=15)
ParseEventDate ==
    /\ wildcard.pc = "resolved"
    /\ wildcard' =
         IF StrptimeYmd(wildcard.specific_date)
         THEN [wildcard EXCEPT !.pc = "evaluating",
                   !.event_date = Date(wildcard.specific_date.a,
                                       wildcard.specific_date.b,
                                       wildcard.specific_date.c)]
         ELSE [wildcard EXCEPT !.pc = "evaluating",
                   !.event_date = AddDays(wildcard.now, DefaultDaysAhead),
                   !.date_extracted = FALSE,
                   !.origin = "default"]
    /\ WildcardUnchanged

\* the transit positions of event_date are asked of the provider (which may
\* fail) and the forecast is returned
EvaluateEvent ==
    /\ wildcard.pc = "evaluating"
    /\ \E provided \in BOOLEAN :
         wildcard' = IF provided THEN [wildcard EXCEPT !.pc = "returned"]
                     ELSE [wildcard EXCEPT !.pc = "raised",
                                           !.error = "ProviderFailure"]
    /\ WildcardUnchanged

WildcardNext == ResolveDate \/ ParseEventDate \/ EvaluateEvent

SpecWildcard == WildcardInit /\ [][WildcardNext]_vars

\* C16: generate_wildcard_prediction called with an explicit date that is not
\* a valid calendar date fails with InvalidInput and never continues with a
\* different instant (a date from the query text or the 15-day default).
C16_MalformedDateRejected ==
    (/\ wildcard.pc \notin {"idle", "called", "resolved"}
     /\ wildcard.given # NoString
     /\ ~StrptimeYmd(wildcard.given))
    => /\ wildcard.pc = "raised"
       /\ wildcard.error = "InvalidInput"
       /\ wildcard.event_date = NoDate

(***************************************************************************)
(* Properties of the success probability (scores in tenths)                *)
(***************************************************************************)
EventReturned == event.pc = "returned"

\* the integer part of a score in tenths, brought into 0..100
PercentOfTenths(t) ==
    IF t < 0 THEN 0
    ELSE IF t >= 1000 THEN 100
    ELSE CHOOSE n \in 0..99 : 10 * n <= t /\ t < 10 * n + 10

\* sum over the key bodies of the event's area of 0.3 * w in a benefic
\* house, -0.3 * w in a challenging one and third * w in house 3
KeyBodySum(third) ==
    LET kp == area_key_planets(event.area)
        a(n) == LET h == event.houses[kp[n][1]]
                    w == kp[n][2]
                IN  IF h \in {1, 2, 4, 5, 7, 9, 10, 11} THEN 3 * w
                    ELSE IF h \in {6, 8, 12} THEN -(3 * w)
                    ELSE third * w
    IN  a(1) + a(2) + a(3)

MoonTenths ==
    IF event.moon_nakshatra \in FavorableNakshatras THEN 100
    ELSE IF event.moon_nakshatra \in ChallengingNakshatras THEN -100
    ELSE 0

PenalisedQuery ==
    /\ event.query \cap {"redundancy", "fired", "accident", "problem", "fail"} # {}
    /\ event.query \cap {"safe", "avoid"} = {}

\* C19 as stated: the success probability is clamp(50 + sum of a(body) + m,
\* 0, 100) with a = +0.3w in a benefic house, -0.3w in a challenging house
\* and 0 in house 3 (read for queries without a penalised keyword, and up to
\* the integer part).
C19_HouseWeightsAsStated ==
    (EventReturned /\ ~PenalisedQuery)
    => event.percentage = PercentOfTenths(500 + KeyBodySum(0) + MoonTenths)

\* C19 amended: a = +0.1w in house 3, a further -5 for a query with a
\* negative keyword and neither "safe" nor "avoid", and the result is the
\* integer part of the sum brought into 0..100.
C19_HouseWeights ==
    EventReturned
    => event.percentage
         = PercentOfTenths(500 + KeyBodySum(1) + MoonTenths
                           + (IF PenalisedQuery THEN -50 ELSE 0))

\* all three key bodies of a "general" event in house 3: 50 + 1.5 + 1 + 1
C19_Witness ==
    /\ EventReturned
    /\ event.area = "general"
    /\ \A p \in KeyPlanetNames("general") : event.houses[p] = 3
    /\ event.moon_nakshatra = "Ashwini"
    /\ event.query = {}
    /\ event.percentage = 53

\* C20: the Moon adjustment is +10 when the Moon's mansion is on the
\* favorable list, -10 when it is on the unfavorable list, 0 otherwise; and
\* every name on both lists is a name get_nakshatra returns for some
\* longitude, so that each listed mansion triggers its adjustment.
C20_ListedMansionsTrigger ==
    EventReturned
    => /\ event.percentage
            - _calculate_success_probability(event.houses, "Ashwini",
                                             event.area, event.query)
          = (IF event.moon_nakshatra \in FavorableNakshatras THEN 10
             ELSE IF event.moon_nakshatra \in ChallengingNakshatras THEN -10
             ELSE 0)
       /\ \A name \in FavorableNakshatras \cup ChallengingNakshatras :
            \E longitude \in 0..(FullCircle - 1) :
                get_nakshatra(longitude)[1] = name

\* the date a well-formed date string denotes
DateOfString(s) == Date(s.a, s.b, s.c)

WildcardDated == wildcard.pc \in {"evaluating", "returned", "raised"}

\* C21: the event date is the explicit date when one is supplied (as given
\* or as repaired), otherwise the first date extracted from the query,
\* otherwise the date 15 days after now; a date in the query never overrides
\* a supplied explicit date, and the default is used only when neither
\* source yields a date.
C21_DateOrder ==
    WildcardDated =>
    LET from_query == extract_date_from_query(wildcard.query)
    IN  /\ wildcard.given # NoString
            => wildcard.origin \in {"explicit", "fixed"}
        /\ (wildcard.given = NoString /\ StrptimeYmd(from_query))
            => /\ wildcard.origin = "query"
               /\ wildcard.event_date = DateOfString(from_query)
        /\ wildcard.origin = "default"
            => /\ wildcard.given = NoString
               /\ ~StrptimeYmd(from_query)
               /\ wildcard.event_date = AddDays(wildcard.now, 15)

(***************************************************************************)
(* get_transit_predictions over any range: the window loop of SpecYearly   *)
(* entered with start_date and end_date of the caller's choice (the record *)
(* field today holds start_date)                                           *)
(***************************************************************************)
RangeInstants ==
    {Datetime(Date(y, m, d), sec) :
        y \in {2023, 2024}, m \in {1, 2, 12}, d \in {1, 15, 28}, sec \in {0, 43200}}

\* end_date: an instant of its own, or start_date + timedelta(days=n)
RangeEnds(start_date) ==
    RangeInstants \cup {AddDaysToDatetime(start_date, n) : n \in {1, 30, 180}}

RangeInit ==
    /\ \E start_date \in RangeInstants :
       \E end_date \in RangeEnds(start_date) :
         yearly = [pc |-> "windows", today |-> start_date, end_date |-> end_date,
                   current_date |-> start_date, predictions |-> <<>>]
    /\ WindowIdle
    /\ ConvertIdle
    /\ WildcardIdle
    /\ ReportIdle
    /\ HouseIdle
    /\ RatingIdle
    /\ EventIdle
    /\ AreaIdle
    /\ ChartIdle

SpecRange == RangeInit /\ [][YearlyNext]_vars

\* the loop is run to its end: a call that can take a step takes it
SpecRangeFair == SpecRange /\ WF_vars(YearlyNext)

\* a < b on datetimes
DatetimeLT(a, b) == DatetimeLE(a, b) /\ a # b

\* the month after that of a datetime, as <<year, month>>
FollowingMonth(dt) ==
    IF dt.date.month = 12 THEN <<dt.date.year + 1, 1>>
    ELSE <<dt.date.year, dt.date.month + 1>>

\* C22: the windows are one fixed step apart: every window after the first
\* starts exactly one calendar month after the start of the previous one
\* (same day of the month, same time of day).
C22_FixedSteps ==
    yearly.pc # "idle" =>
    \A n \in 1..(Len(yearly.predictions) - 1) :
        LET w == yearly.predictions[n]
            v == yearly.predictions[n + 1]
        IN  /\ <<v.date.year, v.date.month>> = FollowingMonth(w)
            /\ v.date.day = w.date.day
            /\ v.seconds = w.seconds

RangeWindowsInOrder ==
    yearly.pc # "idle" =>
    LET p == yearly.predictions
    IN  /\ (yearly.pc = "returned" /\ DatetimeLE(yearly.today, yearly.end_date))
            => Len(p) >= 1
        /\ (yearly.pc = "returned" /\ ~DatetimeLE(yearly.today, yearly.end_date))
            => p = <<>>
        /\ Len(p) >= 1 => p[1] = yearly.today
        /\ \A n \in 1..Len(p) : DatetimeLE(p[n], yearly.end_date)
        /\ \A n \in 1..(Len(p) - 1) :
            /\ DatetimeLT(p[n], p[n + 1])
            /\ <<p[n + 1].date.year, p[n + 1].date.month>> = FollowingMonth(p[n])
            /\ p[n + 1].date.day = 1

SortedByRatingAscending(predictions) ==
    CHOOSE sorted \in
        {[r \in DOMAIN order |-> predictions[order[r]]] :
         order \in {StableOrderAscending(
                    [i \in 1..Len(predictions) |-> predictions[i].overall_rating])}} :
        TRUE

\* sorted(predictions, key=lambda x: x["overall_rating"], reverse=True)
SortedByRating(predictions) ==
    CHOOSE sorted \in
        {[r \in DOMAIN order |-> predictions[order[r]]] :
         order \in {StableOrderDescending(
                    [i \in 1..Len(predictions) |-> predictions[i].overall_rating])}} :
        TRUE

\* the slice lst[:3]
FirstThree(lst) == SubSeq(lst, 1, Min(3, Len(lst)))

\* the slice lst[-3:]
LastThree(lst) == SubSeq(lst, Max(1, Len(lst) - 2), Len(lst))

\* {"month": p["month"], "rating": p["overall_rating"]} for p in lst
MonthRatings(lst) ==
    [i \in 1..Len(lst) |-> [month |-> lst[i].month, rating |-> lst[i].overall_rating]]

\* the overall ratings of a window: 5 + total // 2, the total of the four
\* area scores being -4 at least and 6 at most
OverallRatingInputs == 3..8

\* the numbers of windows get_transit_predictions returns for a year
YearWindowCounts == {MaxMonths, MaxMonths + 1}

\* the overall ratings of the windows of a year: all but MaxApartRatings of
\* them share a rating
WindowRatingInputs(n) ==
    {[i \in 1..n |-> IF i \in DOMAIN g THEN g[i] ELSE shared] :
        shared \in OverallRatingInputs,
        g \in UNION {[apart -> OverallRatingInputs] :
                        apart \in {S \in SUBSET (1..n) :
                                        Cardinality(S) <= MaxApartRatings}}}

OverviewInit ==
    /\ \E n \in YearWindowCounts :
       \E ratings \in WindowRatingInputs(n) :
         overview = [pc |-> "predicted",
                     predictions |-> [i \in 1..n |->
                                        [month |-> i, overall_rating |-> ratings[i]]],
                     best_months |-> <<>>, challenging_months |-> <<>>]
    /\ BestIdle
    /\ BotIdle
    /\ WindowIdle
    /\ YearlyIdle
    /\ ConvertIdle
    /\ WildcardIdle
    /\ HouseIdle
    /\ RatingIdle
    /\ EventIdle
    /\ AreaIdle
    /\ ChartIdle

OverviewUnchanged ==
    UNCHANGED <<houseVars, ratingVars, event, areaVars, chartVars,
                window, yearly, convert, wildcard, best, bot>>

\* "Analyze best and worst months"
SelectMonths ==
    /\ overview.pc = "predicted"
    /\ \E sorted_predictions \in {SortedByRating(overview.predictions)} :
           overview' = [overview EXCEPT
                !.best_months = MonthRatings(FirstThree(sorted_predictions)),
                !.challenging_months = MonthRatings(LastThree(sorted_predictions)),
                !.pc = "selected"]
    /\ OverviewUnchanged

OverviewNext == SelectMonths

SpecOverview == OverviewInit /\ [][OverviewNext]_vars

\* the months listed in a list of the overview
ListedMonths(lst) == {lst[i].month : i \in 1..Len(lst)}

\* the rating of the window with a month label
RatingOfMonth(m) ==
    LET p == overview.predictions
    IN  p[CHOOSE i \in 1..Len(p) : p[i].month = m].overall_rating

AllMonths == {overview.predictions[i].month : i \in 1..Len(overview.predictions)}

\* C23: best_months are 3 windows with the highest overall ratings and
\* challenging_months 3 with the lowest: every best month has a rating >= that
\* of every window not listed as best, every challenging month a rating <=
\* that of every window not listed as challenging, and no window is in both.
C23_BestAndChallenging ==
    overview.pc = "selected" =>
    LET bm == overview.best_months
        cm == overview.challenging_months
    IN  /\ Len(bm) = 3 /\ Cardinality(ListedMonths(bm)) = 3
        /\ Len(cm) = 3 /\ Cardinality(ListedMonths(cm)) = 3
        /\ \A i \in 1..3 : /\ bm[i].rating = RatingOfMonth(bm[i].month)
                           /\ cm[i].rating = RatingOfMonth(cm[i].month)
        /\ \A i \in 1..3 : \A m \in AllMonths \ ListedMonths(bm) :
                bm[i].rating >= RatingOfMonth(m)
        /\ \A i \in 1..3 : \A m \in AllMonths \ ListedMonths(cm) :
                cm[i].rating <= RatingOfMonth(m)
        /\ ListedMonths(bm) \cap ListedMonths(cm) = {}

\* a year of 13 windows, one rated above the others: the third-best rating is
\* shared with windows that are not listed as best
C23_Witness ==
    /\ overview.pc = "selected"
    /\ Len(overview.predictions) = MaxMonths + 1
    /\ overview.best_months[1].rating > overview.best_months[3].rating
    /\ \E m \in AllMonths \ ListedMonths(overview.best_months) :
            RatingOfMonth(m) = overview.best_months[3].rating

(***************************************************************************)
(* Area report: _calculate_best_dates_in_month for one window.  The houses *)
(* found by get_planet_house and the Moon's longitude (in micro-degrees)   *)
(* on a sampled date are the provider's answers.                           *)
(***************************************************************************)
\* (b - a).days for a <= b
RECURSIVE DaysBetween(_, _)
DaysBetween(a, b) == IF a = b THEN 0 ELSE 1 + DaysBetween(AddDays(a, 1), b)

area_planets ==
    [love |-> <<"Venus", "Moon">>, career |-> <<"Sun", "Saturn">>,
     wealth |-> <<"Jupiter", "Mercury">>, health |-> <<"Sun", "Moon">>]

\* one round of "for planet in area_planets.get(area, [])"
QualityStep(score, planet_house_) ==
    IF planet_house_ \in BeneficHouses THEN score + 1
    ELSE IF planet_house_ \in ChallengingHouses THEN score - 1
    ELSE score

RECURSIVE QualityLoop(_, _, _)
QualityLoop(planets, houses, n) ==
    IF n = 0 THEN 5
    ELSE QualityStep(QualityLoop(planets, houses, n - 1), houses[planets[n]])

\* houses: the house get_planet_house finds for each relevant body on the date
_calculate_date_quality(houses, area) ==
    Max(1, Min(10, QualityLoop(area_planets[area], houses, Len(area_planets[area]))))

\* bug variant: sorted(best_dates, key=lambda x: x["quality_score"])
SortedByQualityAscending(best_dates) ==
    CHOOSE sorted \in
        {[r \in DOMAIN order |-> best_dates[order[r]]] :
         order \in {StableOrderAscending(
                    [i \in 1..Len(best_dates) |-> best_dates[i].quality_score])}} :
        TRUE

\* sorted(best_dates, key=lambda x: x["quality_score"], reverse=True)
SortedByQuality(best_dates) ==
    CHOOSE sorted \in
        {[r \in DOMAIN order |-> best_dates[order[r]]] :
         order \in {StableOrderDescending(
                    [i \in 1..Len(best_dates) |-> best_dates[i].quality_score])}} :
        TRUE

\* number of dates sampled in a window
NumSamples == 5

\* days from the start of a window to the end of its date_range
WindowDays == 30

\* the starts of the windows of a report, as read back from date_range
WindowStartInputs == {Datetime(Date(2023, 1, 15), 0), Datetime(Date(2024, 2, 1), 0)}

\* the Moon's sidereal longitude on a sampled date
MoonLongitudeInputs == {100 * MicroDegree, 360 * MicroDegree - 5}

\* the houses of the relevant bodies of an area on a sampled date
DateHouseInputs(area) ==
    [{area_planets[area][n] : n \in 1..Len(area_planets[area])}
        -> 1..MaxSampleHouse]

NoSample == [check_date |-> NoDate, houses |-> <<>>, quality_score |-> 0]

BestInit ==
    /\ \E area \in Areas, start_date \in WindowStartInputs :
         LET end_date == AddDaysToDatetime(start_date, WindowDays)
         IN  best = [pc |-> "sampling", area |-> area,
                     start_date |-> start_date, end_date |-> end_date,
                     date_interval |->
                        DaysBetween(start_date.date, end_date.date) \div NumSamples,
                     i |-> 0, best_dates |-> <<>>, sample |-> NoSample,
                     result |-> <<>>, error |-> "none"]
    /\ OverviewIdle
    /\ BotIdle
    /\ WindowIdle
    /\ YearlyIdle
    /\ ConvertIdle
    /\ WildcardIdle
    /\ HouseIdle
    /\ RatingIdle
    /\ EventIdle
    /\ AreaIdle
    /\ ChartIdle

BestUnchanged ==
    UNCHANGED <<houseVars, ratingVars, event, areaVars, chartVars,
                window, yearly, convert, wildcard, overview, bot>>

\* one round of "for i in range(5)" that reaches the end of its body
SampleDate ==
    /\ best.pc = "sampling"
    /\ best.i < NumSamples
    /\ LET check_date == AddDaysToDatetime(best.start_date, best.i * best.date_interval)
       IN  /\ DatetimeLE(check_date, best.end_date)
           /\ \E moon_long \in MoonLongitudeInputs,
                 houses \in DateHouseInputs(best.area) :
                /\ NakshatraIndexAt(moon_long) < Len(NAKSHATRAS)
                /\ LET quality_score == _calculate_date_quality(houses, best.area)
                       entry == [date |-> check_date.date,
                                 quality_score |-> quality_score,
                                 moon_nakshatra |->
                                    NAKSHATRAS[NakshatraIndexAt(moon_long) + 1]]
                   IN  best' = [best EXCEPT
                            !.i = best.i + 1,
                            !.sample = [check_date |-> check_date, houses |-> houses,
                                        quality_score |-> quality_score],
                            !.best_dates = IF quality_score >= 6
                                           THEN Append(best.best_dates, entry)
                                           ELSE best.best_dates]
    /\ BestUnchanged

\* a round in which get_nakshatra raises: NAKSHATRAS[nakshatra_index] is
\* outside the list
SampleDateRaises ==
    /\ best.pc = "sampling"
    /\ best.i < NumSamples
    /\ DatetimeLE(AddDaysToDatetime(best.start_date, best.i * best.date_interval),
                  best.end_date)
    /\ \E moon_long \in MoonLongitudeInputs :
            NakshatraIndexAt(moon_long) >= Len(NAKSHATRAS)
    /\ best' = [best EXCEPT !.pc = "raised", !.error = "IndexError"]
    /\ BestUnchanged

\* range(5) is exhausted, or check_date > end_date
SamplingOver ==
    IF best.i = NumSamples THEN TRUE
    ELSE ~DatetimeLE(AddDaysToDatetime(best.start_date,
                                       best.i * best.date_interval),
                     best.end_date)

\* the loop ends (range exhausted, or "if check_date > end_date: break") and
\* the sorted list is cut to three
ReturnBestDates ==
    /\ best.pc = "sampling"
    /\ SamplingOver
    /\ best' = [best EXCEPT !.result = FirstThree(SortedByQuality(best.best_dates)),
                            !.pc = "returned"]
    /\ BestUnchanged

BestNext == SampleDate \/ SampleDateRaises \/ ReturnBestDates

SpecBest == BestInit /\ [][BestNext]_vars

\* the bodies looked at for an area
RelevantBodies(area) == {area_planets[area][n] : n \in 1..Len(area_planets[area])}

\* the entries of a list
Entries(lst) == {lst[n] : n \in 1..Len(lst)}

\* start, start + d, ..., start + 4d with d a fifth of the window's days
EvenlySpacedDates ==
    {AddDays(best.start_date.date, k * (WindowDays \div NumSamples)) :
        k \in 0..(NumSamples - 1)}

InsideWindow(date) ==
    /\ DatetimeLE(best.start_date, Datetime(date, 0))
    /\ DatetimeLE(Datetime(date, 0), best.end_date)

\* the date sampled last has the score of the formula, and is in best_dates
\* exactly if that score is 6 or more
C24_Sample ==
    (best.pc \in {"sampling", "returned"} /\ best.i >= 1) =>
    LET sm == best.sample
        in_benefic == {b \in RelevantBodies(best.area) :
                            sm.houses[b] \in {1, 2, 4, 5, 7, 9, 10, 11}}
        in_challenging == {b \in RelevantBodies(best.area) :
                            sm.houses[b] \in {6, 8, 12}}
        kept == /\ best.best_dates # <<>>
                /\ best.best_dates[Len(best.best_dates)].date = sm.check_date.date
                /\ best.best_dates[Len(best.best_dates)].quality_score
                        = sm.quality_score
    IN  /\ sm.quality_score
            = Clamp(5 + Cardinality(in_benefic) - Cardinality(in_challenging), 1, 10)
        /\ sm.check_date.date \in EvenlySpacedDates
        /\ (sm.quality_score >= 6) <=> kept
        /\ \A e \in Entries(best.best_dates) : e.quality_score >= 6

\* the returned list: at most 3 of the kept dates, best first, none left out
\* for a lower-scoring one
C24_Returned ==
    best.pc = "returned" =>
    LET r == best.result
    IN  /\ Len(r) <= 3
        /\ \A m, n \in 1..Len(r) :
                /\ m < n => r[m].quality_score >= r[n].quality_score
                /\ m # n => r[m].date # r[n].date
        /\ \A n \in 1..Len(r) :
                /\ r[n] \in Entries(best.best_dates)
                /\ r[n].quality_score >= 6
                /\ r[n].date \in EvenlySpacedDates
                /\ InsideWindow(r[n].date)
        /\ \A e \in Entries(best.best_dates) \ Entries(r) :
                /\ Len(r) = 3
                /\ \A n \in 1..Len(r) : r[n].quality_score >= e.quality_score

\* a date once kept stays in best_dates
C24_KeptStays ==
    (best.pc # "idle" /\ best'.pc # "idle") =>
        /\ Len(best'.best_dates) >= Len(best.best_dates)
        /\ SubSeq(best'.best_dates, 1, Len(best.best_dates)) = best.best_dates

\* C24: best_dates of a window of an area report has at most 3 entries in
\* non-increasing quality_score order; each is one of 5 evenly spaced sample
\* dates inside the window's [start, end] with quality_score >= 6, the score
\* being clamp(5 + relevant bodies in benefic houses - relevant bodies in
\* challenging houses, 1, 10); no sampled date scoring >= 6 is left out while
\* a lower-scoring one is kept.
C24_BestDates == [](C24_Sample /\ C24_Returned) /\ [][C24_KeptStays]_vars

\* four of the five sampled dates scored 6 or more, one of them 7: a date
\* scoring 6 is left out, and the returned list starts with the 7
C24_Witness ==
    /\ best.pc = "returned"
    /\ best.i = NumSamples
    /\ Len(best.best_dates) = 4
    /\ Len(best.result) = 3
    /\ best.best_dates[1].quality_score = 6
    /\ best.result[1].quality_score = 7
    /\ best.result[3].quality_score = 6

(***************************************************************************)
(* The window and the natal chart                                          *)
(***************************************************************************)
\* the transits of the first n bodies of a window, under a natal chart
RECURSIVE TransitsUnder(_, _, _)
TransitsUnder(houses, natal_chart, n) ==
    IF n = 0 THEN <<>>
    ELSE Append(TransitsUnder(houses, natal_chart, n - 1),
                [planet |-> TransitPlanets[n],
                 transit_house |-> houses[TransitPlanets[n]],
                 effect |-> _analyze_transit_effect(
                                TransitPlanets[n], houses[TransitPlanets[n]],
                                natal_chart[TransitPlanets[n]], natal_chart)])

\* the area scores after the first n bodies, under a natal chart
RECURSIVE KeyAreasUnder(_, _, _)
KeyAreasUnder(houses, natal_chart, n) ==
    IF n = 0 THEN NewKeyAreas
    ELSE _update_area_scores(
            KeyAreasUnder(houses, natal_chart, n - 1),
            _analyze_transit_effect(TransitPlanets[n], houses[TransitPlanets[n]],
                                    natal_chart[TransitPlanets[n]], natal_chart),
            houses[TransitPlanets[n]])

\* natal charts a window is compared under: the ones of the requests, and
\* the charts with all bodies in one challenging house
ComparedNatalCharts ==
    NatalChartInputs
        \cup {[b \in TransitPlanetNames |-> h] : h \in ChallengingHouses}

C28_ProbabilityBand ==
    event.pc = "returned" =>
        /\ event.percentage >= 21
        /\ event.percentage <= 73
        /\ event.rating # "Very High"

\* the highest percentage: the three key bodies of a life area in benefic
\* houses and the Moon in a favourable mansion
C28_Witness ==
    /\ event.pc = "returned"
    /\ event.area # "general"
    /\ \A b \in KeyPlanetNames(event.area) : event.houses[b] \in BeneficHouses
    /\ event.moon_nakshatra \in FavorableNakshatras
    /\ event.percentage = 73
    /\ event.rating = "High"

(***************************************************************************)
(* Bot layer (src/bot): handle_message publishes a user's requests to the  *)
(* queue, the consumer hands them one at a time to                         *)
(* AstrologyWorker.process_request.  One user, one consumer                *)
(* (rabbitmq_workers = 1); a message is "rude" when is_rude_or_aggressive  *)
(* says so, "test" when its text contains "test", else "polite".           *)
(***************************************************************************)
\* settings.max_strikes
max_strikes == 3

MessageKinds == {"rude", "polite", "test"}

\* the consumer between two messages
WaitingWorker == [pc |-> "waiting", request |-> 0]

BotInit ==
    /\ \E has_birth_data \in BOOLEAN :
         bot = [pc |-> "running",
                user |-> [is_active |-> TRUE, strikes |-> 0,
                          has_birth_data |-> has_birth_data],
                messages |-> <<>>,
                queue |-> <<>>,
                worker |-> WaitingWorker,
                replies |-> <<>>]
    /\ OverviewIdle
    /\ BestIdle
    /\ WindowIdle
    /\ YearlyIdle
    /\ ConvertIdle
    /\ WildcardIdle
    /\ HouseIdle
    /\ RatingIdle
    /\ EventIdle
    /\ AreaIdle
    /\ ChartIdle

BotUnchanged ==
    UNCHANGED <<houseVars, ratingVars, event, areaVars, chartVars,
                window, yearly, convert, wildcard, overview, best>>

\* the user sends a message: a call of handle_message starts
ReceiveMessage ==
    /\ bot.pc = "running"
    /\ Len(bot.messages) < MaxMessages
    /\ \E kind \in MessageKinds :
         bot' = [bot EXCEPT
            !.messages = Append(@, [kind |-> kind, pc |-> "received"]),
            !.replies = Append(@, "none")]
    /\ BotUnchanged

\* handle_message up to the publish: the user is read; an inactive user is
\* rejected, a user without birth data is asked for it (or it is extracted
\* from the text and saved), otherwise the request is built
CheckUser ==
    /\ bot.pc = "running"
    /\ \E id \in 1..Len(bot.messages) :
        /\ bot.messages[id].pc = "received"
        /\ IF ~bot.user.is_active
           THEN bot' = [bot EXCEPT !.messages[id].pc = "done",
                                   !.replies[id] = "inactive"]
           ELSE IF ~bot.user.has_birth_data
           THEN \E extracted \in BOOLEAN :
                  bot' = [bot EXCEPT
                    !.user.has_birth_data = extracted,
                    !.messages[id].pc = "done",
                    !.replies[id] = IF extracted THEN "thanks" ELSE "ask_details"]
           ELSE bot' = [bot EXCEPT !.messages[id].pc = "queuing"]
    /\ BotUnchanged

\* await queue_service.publish_request(request_data), then the notice
PublishRequest ==
    /\ bot.pc = "running"
    /\ \E id \in 1..Len(bot.messages) :
        /\ bot.messages[id].pc = "queuing"
        /\ bot' = [bot EXCEPT !.queue = Append(@, id),
                              !.messages[id].pc = "done",
                              !.replies[id] = "reading"]
    /\ BotUnchanged

\* start_consumer: the next message of the queue is handed to the handler
DeliverRequest ==
    /\ bot.pc = "running"
    /\ bot.worker.pc = "waiting"
    /\ bot.queue # <<>>
    /\ bot' = [bot EXCEPT !.worker = [pc |-> "processing", request |-> Head(bot.queue)],
                          !.queue = Tail(@)]
    /\ BotUnchanged

\* process_request up to the agent: a test message is skipped, a rude one
\* adds a strike (and at max_strikes deactivates the user), any other goes on
\* to the agent
ProcessRequest ==
    /\ bot.pc = "running"
    /\ bot.worker.pc = "processing"
    /\ LET id == bot.worker.request
           kind == bot.messages[id].kind
           current_strikes == bot.user.strikes + 1
       IN  IF kind = "test"
           THEN bot' = [bot EXCEPT !.worker = WaitingWorker]
           ELSE IF kind = "rude"
           THEN bot' = [bot EXCEPT
                    !.user.strikes = current_strikes,
                    !.user.is_active = IF current_strikes >= max_strikes THEN FALSE
                                       ELSE bot.user.is_active,
                    !.replies[id] = IF current_strikes >= max_strikes
                                    THEN "deactivated" ELSE "strike",
                    !.worker = WaitingWorker]
           ELSE bot' = [bot EXCEPT !.worker.pc = "generating"]
    /\ BotUnchanged

\* rudie_agent.generate_response returns and the response is sent
SendResponse ==
    /\ bot.pc = "running"
    /\ bot.worker.pc = "generating"
    /\ bot' = [bot EXCEPT !.replies[bot.worker.request] = "answered",
                          !.worker = WaitingWorker]
    /\ BotUnchanged

BotNext ==
    \/ ReceiveMessage
    \/ CheckUser
    \/ PublishRequest
    \/ DeliverRequest
    \/ ProcessRequest
    \/ SendResponse

SpecBot == BotInit /\ [][BotNext]_vars

\* C30: once the worker has deactivated a user (strikes reached max_strikes)
\* no request of that user is passed to the agent and answered, whatever the
\* interleaving; this includes requests already in the queue.
C30_NoServiceAfterDeactivation ==
    (bot.pc = "running" /\ ~bot.user.is_active)
        => bot.worker.pc # "generating"


====
